---- MODULE Spec2Model ----
(***************************************************************************)
(* Model of the battle decision engine of tools/battle_helper.py:          *)
(* TypeEffectivenessMatrix, Move, Pokemon, BattleState and BattleHelper.   *)
(*                                                                         *)
(* Python floats are kept as exact scaled integers. An effectiveness       *)
(* multiplier is held in quarters (0.25 -> 1, 0.5 -> 2, 1 -> 4, 2 -> 8,    *)
(* 4 -> 16). A Python value whose type matters carries a "py" tag, so that *)
(* an attribute access the type does not have raises AttributeError.       *)
(* A call that raises is a result record with raised # "none".             *)
(***************************************************************************)
EXTENDS Integers, Sequences, FiniteSets, TLC

VARIABLES
    battle_state,   \* BattleHelper.battle_state of the caller-constructed helper
    stateObjHash,   \* per helper: hash(str(self.battle_state)) % 16
    last            \* the last call made on the engine: op, arguments, result

vars == <<battle_state, stateObjHash, last>>

(***************************************************************************)
(* PokemonType and TypeEffectiveness enumerations                          *)
(***************************************************************************)
PokemonType ==
    {"Normal", "Fire", "Water", "Electric", "Grass", "Ice", "Fighting", "Poison",
     "Ground", "Flying", "Psychic", "Bug", "Rock", "Ghost", "Dragon"}

TypeEffectiveness == {"IMMUNE", "NOT_VERY_EFFECTIVE", "NEUTRAL", "SUPER_EFFECTIVE"}

\* TypeEffectiveness.<member>.value, in quarters
EnumValueQ(member) ==
    CASE member = "IMMUNE" -> 0
      [] member = "NOT_VERY_EFFECTIVE" -> 2
      [] member = "NEUTRAL" -> 4
      [] member = "SUPER_EFFECTIVE" -> 8

(***************************************************************************)
(* TypeEffectivenessMatrix._build_type_matrix: every pair starts NEUTRAL   *)
(* and the listed assignments overwrite it.                                *)
(***************************************************************************)
MatrixAssignments ==
    [ Normal   |-> [Rock |-> "NOT_VERY_EFFECTIVE", Ghost |-> "IMMUNE"],
      Fire     |-> [Fire |-> "NOT_VERY_EFFECTIVE", Water |-> "NOT_VERY_EFFECTIVE",
                    Grass |-> "SUPER_EFFECTIVE", Ice |-> "SUPER_EFFECTIVE",
                    Bug |-> "SUPER_EFFECTIVE", Rock |-> "NOT_VERY_EFFECTIVE",
                    Dragon |-> "NOT_VERY_EFFECTIVE"],
      Water    |-> [Fire |-> "SUPER_EFFECTIVE", Water |-> "NOT_VERY_EFFECTIVE",
                    Grass |-> "NOT_VERY_EFFECTIVE", Ground |-> "SUPER_EFFECTIVE",
                    Rock |-> "SUPER_EFFECTIVE", Dragon |-> "NOT_VERY_EFFECTIVE"],
      Electric |-> [Water |-> "SUPER_EFFECTIVE", Electric |-> "NOT_VERY_EFFECTIVE",
                    Grass |-> "NOT_VERY_EFFECTIVE", Ground |-> "IMMUNE",
                    Flying |-> "SUPER_EFFECTIVE", Dragon |-> "NOT_VERY_EFFECTIVE"],
      Grass    |-> [Fire |-> "NOT_VERY_EFFECTIVE", Water |-> "SUPER_EFFECTIVE",
                    Grass |-> "NOT_VERY_EFFECTIVE", Poison |-> "NOT_VERY_EFFECTIVE",
                    Ground |-> "SUPER_EFFECTIVE", Flying |-> "NOT_VERY_EFFECTIVE",
                    Bug |-> "NOT_VERY_EFFECTIVE", Rock |-> "SUPER_EFFECTIVE",
                    Dragon |-> "NOT_VERY_EFFECTIVE"],
      Ice      |-> [Fire |-> "NOT_VERY_EFFECTIVE", Water |-> "NOT_VERY_EFFECTIVE",
                    Grass |-> "SUPER_EFFECTIVE", Ice |-> "NOT_VERY_EFFECTIVE",
                    Ground |-> "SUPER_EFFECTIVE", Flying |-> "SUPER_EFFECTIVE",
                    Dragon |-> "SUPER_EFFECTIVE"],
      Fighting |-> [Normal |-> "SUPER_EFFECTIVE", Ice |-> "SUPER_EFFECTIVE",
                    Poison |-> "NOT_VERY_EFFECTIVE", Flying |-> "NOT_VERY_EFFECTIVE",
                    Psychic |-> "NOT_VERY_EFFECTIVE", Bug |-> "NOT_VERY_EFFECTIVE",
                    Rock |-> "SUPER_EFFECTIVE", Ghost |-> "IMMUNE"],
      Poison   |-> [Grass |-> "SUPER_EFFECTIVE", Poison |-> "NOT_VERY_EFFECTIVE",
                    Ground |-> "NOT_VERY_EFFECTIVE", Rock |-> "NOT_VERY_EFFECTIVE",
                    Ghost |-> "NOT_VERY_EFFECTIVE"],
      Ground   |-> [Fire |-> "SUPER_EFFECTIVE", Electric |-> "IMMUNE",
                    Grass |-> "NOT_VERY_EFFECTIVE", Poison |-> "SUPER_EFFECTIVE",
                    Flying |-> "IMMUNE", Bug |-> "NOT_VERY_EFFECTIVE",
                    Rock |-> "SUPER_EFFECTIVE"],
      Flying   |-> [Electric |-> "NOT_VERY_EFFECTIVE", Grass |-> "SUPER_EFFECTIVE",
                    Fighting |-> "SUPER_EFFECTIVE", Bug |-> "SUPER_EFFECTIVE",
                    Rock |-> "NOT_VERY_EFFECTIVE"],
      Psychic  |-> [Fighting |-> "SUPER_EFFECTIVE", Poison |-> "SUPER_EFFECTIVE",
                    Psychic |-> "NOT_VERY_EFFECTIVE"],
      Bug      |-> [Fire |-> "NOT_VERY_EFFECTIVE", Grass |-> "SUPER_EFFECTIVE",
                    Fighting |-> "NOT_VERY_EFFECTIVE", Poison |-> "NOT_VERY_EFFECTIVE",
                    Flying |-> "NOT_VERY_EFFECTIVE", Psychic |-> "SUPER_EFFECTIVE",
                    Ghost |-> "NOT_VERY_EFFECTIVE"],
      Rock     |-> [Fire |-> "SUPER_EFFECTIVE", Ice |-> "SUPER_EFFECTIVE",
                    Fighting |-> "NOT_VERY_EFFECTIVE", Ground |-> "NOT_VERY_EFFECTIVE",
                    Flying |-> "SUPER_EFFECTIVE", Bug |-> "SUPER_EFFECTIVE"],
      Ghost    |-> [Normal |-> "IMMUNE", Psychic |-> "IMMUNE",
                    Ghost |-> "SUPER_EFFECTIVE"],
      Dragon   |-> [Dragon |-> "SUPER_EFFECTIVE"] ]

build_type_matrix ==
    [att \in PokemonType |->
        [def \in PokemonType |->
            IF def \in DOMAIN MatrixAssignments[att]
            THEN MatrixAssignments[att][def]
            ELSE "NEUTRAL"]]

\* A lookup that reads the matrix in the mirrored direction
get_effectiveness_mirrored(attack_type, defense_type) ==
    build_type_matrix[defense_type][attack_type]

\* TypeEffectivenessMatrix.get_effectiveness: an enum member
get_effectiveness(attack_type, defense_type) ==
    build_type_matrix[attack_type][defense_type]

\* TypeEffectivenessMatrix.get_effectiveness_dual_type: a float, in quarters.
\* One listed type: float(value). Otherwise the product of the lookups of the
\* first two listed types (v1 * v2 in quarters is q1 * q2 / 4, exact because
\* every enum value is a whole number of halves).
get_effectiveness_dual_type(attack_type, defense_types) ==
    IF Len(defense_types) = 1
    THEN EnumValueQ(get_effectiveness(attack_type, defense_types[1]))
    ELSE (EnumValueQ(get_effectiveness(attack_type, defense_types[1]))
          * EnumValueQ(get_effectiveness(attack_type, defense_types[2]))) \div 4

\* The defender type lists of the data model: one or two elemental types.
TypeLists ==
    {<<a>> : a \in PokemonType} \cup {<<a, b>> : a \in PokemonType, b \in PokemonType}

(***************************************************************************)
(* Move and Pokemon value objects                                          *)
(***************************************************************************)
None == [py |-> "NoneType"]

\* Move.__init__: max_pp starts as pp; accuracy defaults to 100
NewMove(name, move_type, category, power, pp, accuracy) ==
    [ py |-> "Move", name |-> name, type |-> move_type, category |-> category,
      power |-> power, pp |-> pp, max_pp |-> pp, accuracy |-> accuracy ]

is_physical(move) == move.category = "Physical"
is_special(move) == move.category = "Special"
is_status(move) == move.category = "Status"
has_pp(move) == move.pp > 0

\* Pokemon.__init__: max_hp starts as hp; no status condition. obj is the
\* identity of the constructed object: Pokemon defines no __eq__, so == on two
\* Pokemon compares identities, not field values.
NewPokemon(obj, species, level, types, hp, attack, defense, special, speed, moves) ==
    [ py |-> "Pokemon", obj |-> obj, species |-> species, level |-> level, types |-> types,
      hp |-> hp, max_hp |-> hp, attack |-> attack, defense |-> defense,
      special |-> special, speed |-> speed, moves |-> moves,
      status_condition |-> None ]

is_fainted(pokemon) == pokemon.hp <= 0

\* Pokemon.get_available_moves: the moves with PP left, in order
get_available_moves(pokemon) == SelectSeq(pokemon.moves, has_pp)

(***************************************************************************)
(* Call results. A call either returns a value or raises.                  *)
(***************************************************************************)
Return(v) == [raised |-> "none", value |-> v]
Raise(exc) == [raised |-> exc]

(***************************************************************************)
(* BattleHelper.calculate_damage                                           *)
(***************************************************************************)
\* No same-type bonus at all
calculate_stab_never(attacker, move) == 2

\* BattleHelper._calculate_stab, in halves: 1.5 -> 3, 1.0 -> 2
calculate_stab(attacker, move) ==
    IF \E i \in DOMAIN attacker.types : attacker.types[i] = move.type THEN 3 ELSE 2

\* BattleHelper._check_critical_hit: hash(str(self.battle_state)) % 16 == 0.
\* BattleState defines no __str__, so the string is the default repr with the
\* object's address: the value belongs to the BattleState object, not to the
\* arguments of the call.
check_critical_hit(objHash) == objHash = 0

\* random_factor = 0.85 + 0.15 * (h / 1000) = RollNum(h) / RollDen, h = hash(...) % 1000
RollNum(h) == 17000 + 3 * h
RollDen == 20000

\* floor(x * n / d) for x >= 0, 0 <= n, 0 < d, without forming x * n
MulDivFloor(x, n, d) == (x \div d) * n + ((x % d) * n) \div d

\* int(base_damage * stab * effectiveness * critical * random_factor), with
\*   base_damage = (level_factor * power * attack_stat / defense_stat) / 50 + 2
\*               = ((2 * level + 10) * power * attack_stat + 500 * defense_stat)
\*                 / (250 * defense_stat),
\* stab in halves, effectiveness in quarters, so the product is
\*   numerator * RollNum / (RollDen * 250 * defense_stat * 2 * 4).
\* floor(floor(a / b) / c) = floor(a / (b * c)) keeps the two divisions exact.
final_damage_int(level, power, attack_stat, defense_stat, stab2, effQ, critical, h) ==
    LET numerator == ((2 * level + 10) * power * attack_stat + 500 * defense_stat)
                        * stab2 * effQ * critical
    IN MulDivFloor(numerator, RollNum(h), RollDen) \div (2000 * defense_stat)

\* The damage left as computed, without the minimum of 1
minimum_damage_missing(effQ, final_damage) == final_damage

\* "Ensure minimum damage of 1 (except for ineffective moves)"
minimum_damage(effQ, final_damage) ==
    IF effQ > 0 /\ final_damage < 1 THEN 1 ELSE final_damage

\* objHash: hash(str(self.battle_state)) % 16 of the helper the call is made on;
\* h: hash(attacker.species + defender.species + move.name) % 1000
calculate_damage(objHash, attacker, defender, move, h) ==
    IF ~has_pp(move) THEN Return(0)
    ELSE IF ~(is_physical(move) \/ is_special(move)) THEN Return(0)
    ELSE
      LET stab2 == calculate_stab(attacker, move)
          attack_stat == IF is_physical(move) THEN attacker.attack ELSE attacker.special
          defense_stat == IF is_physical(move) THEN defender.defense ELSE defender.special
          effQ == get_effectiveness_dual_type(move.type, defender.types)
          critical == IF check_critical_hit(objHash) THEN 2 ELSE 1
      IN IF defense_stat = 0 THEN Raise("ZeroDivisionError")
         ELSE LET final_damage == final_damage_int(attacker.level, move.power, attack_stat,
                                                    defense_stat, stab2, effQ, critical, h)
              IN Return(minimum_damage(effQ, final_damage))

(***************************************************************************)
(* BattleHelper._evaluate_move and BattleHelper.suggest_move               *)
(***************************************************************************)
PyStr(str) == [py |-> "str", s |-> str]
PyList(items) == [py |-> "list", items |-> items]
PyEnum(member) == [py |-> "TypeEffectiveness", member |-> member]
PyFloatQ(q) == [py |-> "float", q |-> q]
IsNone(v) == v.py = "NoneType"

\* The Python type of what get_effectiveness_dual_type returns: both returns
\* wrap the value in float(...)
DualTypeResultType == "float"

\* x.value exists on a TypeEffectiveness member and on nothing else here;
\* on a float the access raises AttributeError
HasValueAttribute(pytype) == pytype = "TypeEffectiveness"

\* The score _evaluate_move adds up, as the fraction ScoreNum / ScoreDen with
\* ScoreDen = 1000 * max_pp: power / 100, the effectiveness value, -10 for no
\* effect, 0.5 for STAB, 0.3 * pp / max_pp, -(100 - accuracy) / 100 * 0.2,
\* 0.3 for a Status move.
ScoreNum(attacker, defender, move) ==
    LET effQ == get_effectiveness_dual_type(move.type, defender.types)
    IN move.max_pp * ( (IF move.power > 0 THEN 10 * move.power ELSE 0)
                       + 250 * effQ
                       + (IF effQ = 0 THEN -10000 ELSE 0)
                       + (IF calculate_stab(attacker, move) = 3 THEN 500 ELSE 0)
                       - (IF move.accuracy < 100 THEN 2 * (100 - move.accuracy) ELSE 0)
                       + (IF is_status(move) THEN 300 ELSE 0) )
       + 300 * move.pp
ScoreDen(move) == 1000 * move.max_pp

\* The reasoning list of _evaluate_move (the numbers of the f-strings left out)
Reasoning(attacker, defender, move) ==
    LET effQ == get_effectiveness_dual_type(move.type, defender.types)
    IN (IF move.power > 0 THEN <<"Power">> ELSE <<>>)
       \o (CASE effQ = 8 -> <<"Super effective">>
             [] effQ = 2 -> <<"Not very effective">>
             [] effQ = 0 -> <<"No effect">>
             [] OTHER -> <<>>)
       \o (IF calculate_stab(attacker, move) = 3 THEN <<"STAB bonus">> ELSE <<>>)
       \o <<"PP">>
       \o (IF move.accuracy < 100 THEN <<"Accuracy">> ELSE <<>>)
       \o (IF is_status(move) THEN <<"Status move">> ELSE <<>>)

\* _evaluate_move: `effectiveness.value` is evaluated on the result of
\* get_effectiveness_dual_type before anything is added for it.
evaluate_move(attacker, defender, move) ==
    IF IsNone(defender) THEN Raise("AttributeError")         \* None.types
    ELSE IF ~HasValueAttribute(DualTypeResultType) THEN Raise("AttributeError")
    ELSE IF move.max_pp = 0 THEN Raise("ZeroDivisionError")
    ELSE Return([num |-> ScoreNum(attacker, defender, move), den |-> ScoreDen(move),
                 reasoning |-> Reasoning(attacker, defender, move)])

\* The loop of suggest_move over moves[i ..]: best is [move, num, den,
\* reasoning]; a candidate replaces it only when its score is strictly
\* greater (num1 / den1 > num2 / den2, denominators positive).
RECURSIVE BestMoveFrom(_, _, _, _, _)
BestMoveFrom(attacker, defender, moves, i, best) ==
    IF i > Len(moves) THEN Return(best)
    ELSE LET e == evaluate_move(attacker, defender, moves[i])
         IN IF e.raised # "none" THEN Raise(e.raised)
            ELSE IF e.value.num * best.den > best.num * e.value.den
                 THEN BestMoveFrom(attacker, defender, moves, i + 1,
                                   [move |-> moves[i], num |-> e.value.num,
                                    den |-> e.value.den, reasoning |-> e.value.reasoning])
                 ELSE BestMoveFrom(attacker, defender, moves, i + 1, best)

\* best_move = None, best_score = -1, best_reasoning = []
NoBest == [move |-> None, num |-> -1, den |-> 1, reasoning |-> <<>>]

\* suggest_move. available_moves is None or a PyList of moves; objHash and h
\* are the hashes calculate_damage reads.
suggest_move(objHash, attacker, defender, available_moves, h) ==
    IF IsNone(available_moves) /\ IsNone(attacker)
    THEN Raise("AttributeError")                             \* None.get_available_moves
    ELSE
    LET candidates == IF IsNone(available_moves) THEN get_available_moves(attacker)
                      ELSE available_moves.items
    IN IF Len(candidates) = 0
       THEN Return([move |-> None, reason |-> <<"No moves available">>,
                    damage |-> 0, effectiveness |-> PyEnum("NEUTRAL")])
       ELSE LET b == BestMoveFrom(attacker, defender, candidates, 1, NoBest)
            IN IF b.raised # "none" THEN Raise(b.raised)
               ELSE IF IsNone(b.value.move)
               THEN Return([move |-> None, reason |-> b.value.reasoning,
                            damage |-> 0, effectiveness |-> PyFloatQ(4)])
               ELSE LET dmg == calculate_damage(objHash, attacker, defender, b.value.move, h)
                    IN IF dmg.raised # "none" THEN Raise(dmg.raised)
                       ELSE Return([move |-> b.value.move, reason |-> b.value.reasoning,
                                    damage |-> dmg.value,
                                    effectiveness |->
                                        PyFloatQ(get_effectiveness_dual_type(
                                                    b.value.move.type, defender.types))])

(***************************************************************************)
(* BattleHelper.should_switch_pokemon                                      *)
(***************************************************************************)
\* Scores are kept in 1/400: an effectiveness in quarters times a power in
\* hundredths.

\* resistance_score of a party member: the loop over opponent.moves with
\* power > 0 reads `effectiveness.value` on the first of them
RECURSIVE ResistanceFrom(_, _, _, _)
ResistanceFrom(opponent, member, i, acc) ==
    IF i > Len(opponent.moves) THEN Return(acc)
    ELSE IF opponent.moves[i].power > 0
         THEN IF ~HasValueAttribute(DualTypeResultType) THEN Raise("AttributeError")
              ELSE ResistanceFrom(opponent, member, i + 1,
                     acc + 100 * get_effectiveness_dual_type(opponent.moves[i].type,
                                                             member.types))
         ELSE ResistanceFrom(opponent, member, i + 1, acc)

\* damage_score of a party member: the loop over its moves with PP reads
\* `effectiveness.value` on the first of them
RECURSIVE DamageScoreFrom(_, _, _, _)
DamageScoreFrom(opponent, moves, i, acc) ==
    IF i > Len(moves) THEN Return(acc)
    ELSE IF ~HasValueAttribute(DualTypeResultType) THEN Raise("AttributeError")
         ELSE DamageScoreFrom(opponent, moves, i + 1,
                acc + get_effectiveness_dual_type(moves[i].type, opponent.types)
                        * moves[i].power)

\* party_member == current_pokemon or party_member.is_fainted()
SkipsMember(member, current_pokemon) ==
    member.obj = current_pokemon.obj \/ is_fainted(member)

\* The loop over available_party[i ..]; best is [pokemon, score]
RECURSIVE BestAlternativeFrom(_, _, _, _, _)
BestAlternativeFrom(current_pokemon, opponent, party, i, best) ==
    IF i > Len(party) THEN Return(best)
    ELSE IF SkipsMember(party[i], current_pokemon)
         THEN BestAlternativeFrom(current_pokemon, opponent, party, i + 1, best)
    ELSE LET res == ResistanceFrom(opponent, party[i], 1, 0)
         IN IF res.raised # "none" THEN Raise(res.raised)
            ELSE LET dmg == DamageScoreFrom(opponent, get_available_moves(party[i]), 1, 0)
                 IN IF dmg.raised # "none" THEN Raise(dmg.raised)
                    ELSE LET total == dmg.value - res.value
                         IN IF total > best.score
                            THEN BestAlternativeFrom(current_pokemon, opponent, party, i + 1,
                                                     [pokemon |-> party[i], score |-> total])
                            ELSE BestAlternativeFrom(current_pokemon, opponent, party, i + 1,
                                                     best)

\* best_alternative = None, best_score = -1
NoAlternative == [pokemon |-> None, score |-> -400]

\* current_effectiveness: the opponent's first move's type (Normal without
\* moves) against the current creature's types, in quarters
current_effectiveness(current_pokemon, opponent) ==
    get_effectiveness_dual_type(
        IF Len(opponent.moves) > 0 THEN opponent.moves[1].type ELSE "Normal",
        current_pokemon.types)

\* should_switch_pokemon on a helper whose battle state is bs.
\* best_score > current_effectiveness * 1.5, in 1/400: score > 150 * quarters
should_switch_pokemon(bs, current_pokemon, opponent, available_party) ==
    IF Len(available_party) = 0 \/ ~bs.can_switch
    THEN Return([should_switch |-> FALSE, recommended_pokemon |-> None,
                 reason |-> "Cannot switch or no alternatives available"])
    ELSE IF IsNone(opponent) \/ IsNone(current_pokemon)      \* None.moves, None.types
    THEN Raise("AttributeError")
    ELSE LET cur == current_effectiveness(current_pokemon, opponent)
             b == BestAlternativeFrom(current_pokemon, opponent, available_party, 1,
                                      NoAlternative)
         IN IF b.raised # "none" THEN Raise(b.raised)
            ELSE LET yes == b.value.score > 150 * cur
                 IN Return([should_switch |-> yes,
                            recommended_pokemon |-> b.value.pokemon,
                            reason |-> IF yes THEN "Alternative has better type matchup"
                                       ELSE "Current Pokemon has adequate type matchup"])

(***************************************************************************)
(* BattleHelper.should_use_item                                            *)
(***************************************************************************)
Contains(items, item) == \E i \in DOMAIN items : items[i] = item

\* Truth value of pokemon.status_condition: None and "" are false
HasStatus(pokemon) ==
    ~IsNone(pokemon.status_condition) /\ pokemon.status_condition.s # ""

\* An item advisor that does not look for a healthy creature first
should_use_item_no_health_gate(bs, pokemon, available_items) ==
    IF Len(available_items) = 0 \/ ~bs.can_use_items
    THEN Return([should_use_item |-> FALSE, recommended_item |-> None,
                 reason |-> "No items available or cannot use items"])
    ELSE IF IsNone(pokemon) THEN Raise("AttributeError")
    ELSE IF pokemon.max_hp = 0 THEN Raise("ZeroDivisionError")
    ELSE IF 10 * pokemon.hp < 3 * pokemon.max_hp /\ Contains(available_items, "Potion")
    THEN Return([should_use_item |-> TRUE, recommended_item |-> PyStr("Potion"),
                 reason |-> "Pokemon HP is critically low"])
    ELSE IF HasStatus(pokemon) /\ Contains(available_items, "Full Restore")
    THEN Return([should_use_item |-> TRUE, recommended_item |-> PyStr("Full Restore"),
                 reason |-> "Pokemon has status"])
    ELSE Return([should_use_item |-> FALSE, recommended_item |-> None,
                 reason |-> "No critical need for items"])

\* An item advisor that looks at the status condition before the health
should_use_item_status_first(bs, pokemon, available_items) ==
    IF Len(available_items) = 0 \/ ~bs.can_use_items
    THEN Return([should_use_item |-> FALSE, recommended_item |-> None,
                 reason |-> "No items available or cannot use items"])
    ELSE IF IsNone(pokemon) THEN Raise("AttributeError")
    ELSE IF pokemon.max_hp = 0 THEN Raise("ZeroDivisionError")
    ELSE IF 5 * pokemon.hp > 4 * pokemon.max_hp
    THEN Return([should_use_item |-> FALSE, recommended_item |-> None,
                 reason |-> "Pokemon is healthy enough"])
    ELSE IF HasStatus(pokemon) /\ Contains(available_items, "Full Restore")
    THEN Return([should_use_item |-> TRUE, recommended_item |-> PyStr("Full Restore"),
                 reason |-> "Pokemon has status"])
    ELSE IF 10 * pokemon.hp < 3 * pokemon.max_hp /\ Contains(available_items, "Potion")
    THEN Return([should_use_item |-> TRUE, recommended_item |-> PyStr("Potion"),
                 reason |-> "Pokemon HP is critically low"])
    ELSE Return([should_use_item |-> FALSE, recommended_item |-> None,
                 reason |-> "No critical need for items"])

\* health_percentage = hp / max_hp; > 0.8 is 5 * hp > 4 * max_hp and
\* < 0.3 is 10 * hp < 3 * max_hp for max_hp > 0
should_use_item(bs, pokemon, available_items) ==
    IF Len(available_items) = 0 \/ ~bs.can_use_items
    THEN Return([should_use_item |-> FALSE, recommended_item |-> None,
                 reason |-> "No items available or cannot use items"])
    ELSE IF IsNone(pokemon) THEN Raise("AttributeError")     \* None.hp
    ELSE IF pokemon.max_hp = 0 THEN Raise("ZeroDivisionError")
    ELSE IF 5 * pokemon.hp > 4 * pokemon.max_hp
    THEN Return([should_use_item |-> FALSE, recommended_item |-> None,
                 reason |-> "Pokemon is healthy enough"])
    ELSE IF 10 * pokemon.hp < 3 * pokemon.max_hp /\ Contains(available_items, "Potion")
    THEN Return([should_use_item |-> TRUE, recommended_item |-> PyStr("Potion"),
                 reason |-> "Pokemon HP is critically low"])
    ELSE IF HasStatus(pokemon) /\ Contains(available_items, "Full Restore")
    THEN Return([should_use_item |-> TRUE, recommended_item |-> PyStr("Full Restore"),
                 reason |-> "Pokemon has status"])
    ELSE Return([should_use_item |-> FALSE, recommended_item |-> None,
                 reason |-> "No critical need for items"])

(***************************************************************************)
(* BattleHelper.get_battle_decision                                        *)
(***************************************************************************)
\* A guard that lets a half-initialized state through ('and' for 'or')
NotInitialized_BothMissing(bs) == IsNone(bs.player_pokemon) /\ IsNone(bs.opponent_pokemon)

\* not self.battle_state.player_pokemon or not self.battle_state.opponent_pokemon
NotInitialized(bs) == IsNone(bs.player_pokemon) \/ IsNone(bs.opponent_pokemon)

ErrorResult == [error |-> "Battle state not properly initialized"]

Decision(action_type, move, switch, item, reasoning) ==
    [action_type |-> action_type, move |-> move, switch |-> switch, item |-> item,
     reasoning |-> reasoning]

\* A result of get_battle_decision also lists the advisors it called, in order.
Called(r, calls) == r @@ [calls |-> calls]

get_battle_decision(objHash, bs, h) ==
    IF NotInitialized(bs) THEN Called(Return(ErrorResult), <<>>)
    ELSE
      LET item_decision == should_use_item(bs, bs.player_pokemon, bs.player_items)
          switch_decision == should_switch_pokemon(bs, bs.player_pokemon,
                                                   bs.opponent_pokemon, bs.party_pokemon)
          move_decision == suggest_move(objHash, bs.player_pokemon, bs.opponent_pokemon,
                                        None, h)
      IN IF item_decision.raised # "none"
         THEN Called(Raise(item_decision.raised), <<"should_use_item">>)
         ELSE IF item_decision.value.should_use_item
         THEN Called(Return(Decision("use_item", None, None,
                                     item_decision.value.recommended_item,
                                     <<item_decision.value.reason>>)),
                     <<"should_use_item">>)
         ELSE IF switch_decision.raised # "none"
         THEN Called(Raise(switch_decision.raised),
                     <<"should_use_item", "should_switch_pokemon">>)
         ELSE IF switch_decision.value.should_switch
         THEN Called(Return(Decision("switch", None,
                                     switch_decision.value.recommended_pokemon, None,
                                     <<switch_decision.value.reason>>)),
                     <<"should_use_item", "should_switch_pokemon">>)
         ELSE IF move_decision.raised # "none"
         THEN Called(Raise(move_decision.raised),
                     <<"should_use_item", "should_switch_pokemon", "suggest_move">>)
         ELSE Called(Return(Decision("move", move_decision.value.move, None, None,
                                     <<move_decision.value.reason>>)),
                     <<"should_use_item", "should_switch_pokemon", "suggest_move">>)

(***************************************************************************)
(* BattleHelper.update_battle_state                                        *)
(***************************************************************************)
\* The attributes a BattleState has (hasattr): its fields and its two methods
BattleStateAttributes ==
    {"player_pokemon", "opponent_pokemon", "battle_phase", "player_items",
     "party_pokemon", "can_switch", "can_use_items",
     "is_player_turn", "is_opponent_turn"}

\* Truth value of the three named arguments: None is false, a Pokemon is true,
\* a string is true unless empty
Truthy(v) == ~IsNone(v) /\ (v.py = "str" => v.s # "")

\* args: [player_pokemon, opponent_pokemon, battle_phase, kwargs]; an omitted
\* named argument is None; kwargs is a function from the supplied keywords to
\* their values
update_battle_state(bs, args) ==
    LET named ==
          [bs EXCEPT
             !.player_pokemon = IF Truthy(args.player_pokemon) THEN args.player_pokemon ELSE @,
             !.opponent_pokemon = IF Truthy(args.opponent_pokemon) THEN args.opponent_pokemon
                                  ELSE @,
             !.battle_phase = IF Truthy(args.battle_phase) THEN args.battle_phase.s ELSE @]
        set == DOMAIN args.kwargs \cap BattleStateAttributes
    IN [f \in DOMAIN named \cup set |->
           IF f \in set THEN args.kwargs[f] ELSE named[f]]

(***************************************************************************)
(* The module-level wrappers over dictionaries (get_type_effectiveness,    *)
(* calculate_damage, suggest_move). A dict is a tagged function from its   *)
(* keys to their values; the wrappers call the module-level _battle_helper.*)
(* PokemonType(s) parses the value string of a member and raises           *)
(* ValueError for any other argument.                                      *)
(***************************************************************************)
PyDict(d) == [py |-> "dict", d |-> d]
IsDict(v) == v.py = "dict"            \* isinstance(v, dict)
IsList(v) == v.py = "list"            \* isinstance(v, list)

ParsesAsType(s) == s \in PokemonType

\* required_fields of both wrappers
RequiredFields ==
    {"species", "level", "types", "hp", "attack", "defense", "special", "speed"}
\* The keys a move entry of a creature or of available_moves must have
MoveEntryKeys == {"name", "type", "category", "power", "pp"}
\* The keys the move argument of calculate_damage must have
MoveArgumentKeys == {"name", "type", "category"}

\* d.get(key, default)
DictGet(v, key, default) == IF key \in DOMAIN v.d THEN v.d[key] ELSE default

\* The loop that converts a list of move entries: an entry that is not a dict,
\* lacks a key or has an unparseable type is left out
convert_moves(entries) ==
    LET usable(m) == IsDict(m) /\ MoveEntryKeys \subseteq DOMAIN m.d /\ ParsesAsType(m.d.type)
        kept == SelectSeq(entries, usable)
    IN [i \in 1 .. Len(kept) |->
           NewMove(kept[i].d.name, kept[i].d.type, kept[i].d.category,
                   kept[i].d.power, kept[i].d.pp, 100)]

\* [PokemonType(t) for t in types], [PokemonType.NORMAL] when one fails to parse
convert_types(types) ==
    IF \A i \in DOMAIN types : ParsesAsType(types[i]) THEN types ELSE <<"Normal">>

\* Pokemon(species, level, types, hp, attack, defense, special, speed, moves)
convert_pokemon(obj, v) ==
    NewPokemon(obj, v.d.species, v.d.level, convert_types(v.d.types), v.d.hp, v.d.attack,
               v.d.defense, v.d.special, v.d.speed,
               convert_moves(DictGet(v, "moves", <<>>)))

\* get_type_effectiveness(attack_type, defense_type): a float, in quarters
get_type_effectiveness(attack_type, defense_type) ==
    IF ParsesAsType(attack_type) /\ ParsesAsType(defense_type)
    THEN Return(EnumValueQ(get_effectiveness(attack_type, defense_type)))
    ELSE Return(4)

\* calculate_damage(attacker: dict, defender: dict, move: dict) -> int.
\* objHash is hash(str(_battle_helper.battle_state)) % 16.
calculate_damage_flat(objHash, attacker, defender, move, h) ==
    IF ~IsDict(attacker) \/ ~IsDict(defender) \/ ~IsDict(move) THEN Return(0)
    ELSE IF \E f \in RequiredFields : f \notin DOMAIN attacker.d \/ f \notin DOMAIN defender.d
    THEN Return(0)
    ELSE IF ~(MoveArgumentKeys \subseteq DOMAIN move.d) THEN Return(0)
    ELSE IF ~ParsesAsType(move.d.type) THEN Return(0)
    ELSE LET r == calculate_damage(objHash, convert_pokemon("attacker", attacker),
                                   convert_pokemon("defender", defender),
                                   NewMove(move.d.name, move.d.type, move.d.category,
                                           DictGet(move, "power", 0),
                                           DictGet(move, "pp", 0), 100),
                                   h)
         IN IF r.raised # "none" THEN Return(0) ELSE Return(r.value)

\* The result the suggest_move wrapper gives when it chooses nothing
NothingChosen(reason) ==
    [move |-> None, reason |-> <<reason>>, damage |-> 0, effectiveness |-> PyFloatQ(4)]

\* suggest_move(attacker: dict, defender: dict, available_moves: list = None)
suggest_move_flat(objHash, attacker, defender, available_moves, h) ==
    IF ~IsDict(attacker) \/ ~IsDict(defender)
    THEN Return(NothingChosen("Invalid input types"))
    ELSE IF \E f \in RequiredFields : f \notin DOMAIN attacker.d \/ f \notin DOMAIN defender.d
    THEN Return(NothingChosen("Missing required field"))
    ELSE LET available_move_objects ==
                 IF IsList(available_moves) /\ Len(available_moves.items) > 0
                 THEN PyList(convert_moves(available_moves.items))
                 ELSE None
             r == suggest_move(objHash, convert_pokemon("attacker", attacker),
                               convert_pokemon("defender", defender),
                               available_move_objects, h)
         IN IF r.raised # "none"
            THEN Return(NothingChosen("Error processing move suggestion"))
            ELSE Return(r.value)

(***************************************************************************)
(* State after construction                                                *)
(***************************************************************************)
\* BattleState.__init__
NewBattleState ==
    [ player_pokemon   |-> None,
      opponent_pokemon |-> None,
      battle_phase     |-> "Waiting",
      player_items     |-> <<>>,
      party_pokemon    |-> <<>>,
      can_switch       |-> TRUE,
      can_use_items    |-> TRUE ]

\* The module-level _battle_helper and a helper constructed by the caller.
Helpers == {"module", "caller"}

\* Sampled values of hash(str(self.battle_state)) % 16, which ranges over 0 .. 15
HashSamples == {0, 15}

NoCall == [op |-> "none", done |-> TRUE]

(***************************************************************************)
(* Creatures and moves of the repository's tests, used as inputs           *)
(***************************************************************************)
Thunderbolt == NewMove("Thunderbolt", "Electric", "Special", 95, 15, 100)
QuickAttack == NewMove("Quick Attack", "Normal", "Physical", 40, 30, 100)
Tackle == NewMove("Tackle", "Normal", "Physical", 35, 35, 100)
Splash == NewMove("Splash", "Water", "Status", 0, 40, 100)
Lick == NewMove("Lick", "Ghost", "Physical", 30, 30, 100)
\* Move("Test", NORMAL, "Physical", 50, 0): built with no PP
NoPPMove == NewMove("Test", "Normal", "Physical", 50, 0, 100)
\* Thunderbolt after its PP were used up (move.pp -= 1, fifteen times)
SpentThunderbolt == [Thunderbolt EXCEPT !.pp = 0]

Pikachu ==
    NewPokemon("pikachu", "Pikachu", 25, <<"Electric">>, 80, 55, 40, 50, 90, <<Thunderbolt>>)
PikachuTwoMoves ==
    NewPokemon("pikachu2", "Pikachu", 25, <<"Electric">>, 80, 55, 40, 50, 90,
               <<QuickAttack, Thunderbolt>>)
Geodude ==
    NewPokemon("geodude", "Geodude", 25, <<"Rock", "Ground">>, 80, 80, 100, 30, 20, <<Tackle>>)
Gyarados ==
    NewPokemon("gyarados", "Gyarados", 30, <<"Water", "Flying">>, 120, 125, 79, 100, 81,
               <<Splash>>)
Raichu ==
    NewPokemon("raichu", "Raichu", 30, <<"Electric">>, 100, 90, 55, 80, 100, <<Thunderbolt>>)
\* Pokemon("Test", 1, [NORMAL], 100, 10, 10, 10, 10, [])
NoMoves == NewPokemon("nomoves", "Test", 1, <<"Normal">>, 100, 10, 10, 10, 10, <<>>)
NoPP == NewPokemon("nopp", "Test", 1, <<"Normal">>, 100, 10, 10, 10, 10, <<NoPPMove>>)
NormalWithLick ==
    NewPokemon("normal", "Normal", 25, <<"Normal">>, 100, 50, 50, 50, 50, <<Lick>>)
GhostDefender == NewPokemon("ghost", "Ghost", 25, <<"Ghost">>, 100, 50, 50, 50, 50, <<>>)
\* Pokemon("Test", 1, [NORMAL], 0, 10, 10, 10, 10, moves): built fainted, max_hp 0
BuiltFainted ==
    NewPokemon("fainted", "Test", 1, <<"Normal">>, 0, 10, 10, 10, 10, <<Tackle>>)
\* A creature whose hp the caller lowered after construction
WithHP(pokemon, obj, hp) == [pokemon EXCEPT !.obj = obj, !.hp = hp]
HurtPikachu == WithHP(Pikachu, "hurt_pikachu", 15)

\* Bounds of the inputs
MaxParty == 2
MaxCandidates == 2

RECURSIVE SeqsUpTo(_, _)
SeqsUpTo(S, n) ==
    IF n = 0 THEN {<<>>}
    ELSE LET shorter == SeqsUpTo(S, n - 1)
         IN shorter \cup {Append(q, x) : q \in shorter, x \in S}

PlayerPool == {Pikachu, HurtPikachu, NoMoves, BuiltFainted}
OpponentPool == {Geodude, Gyarados}
BenchPool == {Raichu, NoPP}
ItemLists == {<<>>, <<"Potion">>, <<"Antidote", "Full Restore">>}
Phases == {"PlayerTurn"}

\* Only the caller's helper is called under Spec, so the hash of the
\* module-level helper's BattleState is sampled together with the caller's.
Init ==
    /\ battle_state = NewBattleState
    /\ \E c \in HashSamples : stateObjHash = [h \in Helpers |-> c]
    /\ last = NoCall

(***************************************************************************)
(* Type chart queries. The query to make is drawn when the behaviour       *)
(* starts (a pending call); the action makes the call and records what it  *)
(* returns.                                                                *)
(***************************************************************************)
Pending(call) == call @@ [done |-> FALSE]
Returned(call, result) == [f \in DOMAIN call \ {"done"} |-> call[f]]
                              @@ [done |-> TRUE, result |-> result]

IsPending(op) == last.op = op /\ ~last.done
IsReturned(op) == last.op = op /\ last.done

GetEffectiveness ==
    /\ IsPending("get_effectiveness")
    /\ last' = Returned(last, get_effectiveness(last.attack_type, last.defense_type))
    /\ UNCHANGED <<battle_state, stateObjHash>>

GetEffectivenessDualType ==
    /\ IsPending("get_effectiveness_dual_type")
    /\ last' = Returned(last, get_effectiveness_dual_type(last.attack_type,
                                                          last.defense_types))
    /\ UNCHANGED <<battle_state, stateObjHash>>

MatrixCalls ==
    {[op |-> "get_effectiveness", attack_type |-> a, defense_type |-> d] :
        a \in PokemonType, d \in PokemonType}
    \cup {[op |-> "get_effectiveness_dual_type", attack_type |-> a, defense_types |-> ds] :
        a \in PokemonType, ds \in TypeLists}

InitMatrix ==
    /\ battle_state = NewBattleState
    /\ stateObjHash \in [Helpers -> HashSamples]
    /\ \E c \in MatrixCalls : last = Pending(c)

NextMatrix ==
    \/ GetEffectiveness
    \/ GetEffectivenessDualType

SpecMatrix == InitMatrix /\ [][NextMatrix]_vars

(***************************************************************************)
(* Damage calculation. calculate_damage is an instance method: the same    *)
(* call is made on every helper (the flat wrapper calls the module-level   *)
(* _battle_helper, a caller calls its own instance) and last.result holds  *)
(* what each of them gives. str_hash is what                               *)
(* hash(attacker.species + defender.species + move.name) % 1000 is in this *)
(* process: string hashing is seeded per process, so the value is not      *)
(* fixed by the strings, but it is the same for every call with the same   *)
(* strings.                                                                *)
(***************************************************************************)
CalculateDamage ==
    /\ IsPending("calculate_damage")
    /\ last' = Returned(last,
                  [h \in Helpers |->
                      calculate_damage(stateObjHash[h], last.attacker, last.defender,
                                       last.move, last.str_hash)])
    /\ UNCHANGED <<battle_state, stateObjHash>>

\* Sampled inputs. Stats include 0 (the constructors accept any integer).
DmgLevels == {1, 10, 50}
DmgAttackStats == {<<52, 50>>, <<100, 0>>}      \* <<attack, special>>
DmgDefenseStats == {<<0, 50>>, <<43, 50>>, <<100, 1>>}   \* <<defense, special>>
DmgAttackerTypes == {<<"Water">>, <<"Electric">>}
DmgDefenderTypes == {<<"Fire">>, <<"Ground">>, <<"Water", "Ground">>, <<"Water", "Flying">>,
                     <<"Grass", "Dragon">>}
DmgMoveTypes == {"Water", "Electric", "Normal"}
Categories == {"Physical", "Special", "Status"}
DmgPowers == {0, 40}
DmgPP == {0, 25}
RollSamples == {0, 500, 999}

DmgAttackers ==
    {NewPokemon("attacker", "Squirtle", l, ts, 44, st[1], 65, st[2], 43, <<>>) :
        l \in DmgLevels, ts \in DmgAttackerTypes, st \in DmgAttackStats}

DmgDefenders ==
    {NewPokemon("defender", "Charmander", 10, ts, 39, 52, st[1], st[2], 65, <<>>) :
        ts \in DmgDefenderTypes, st \in DmgDefenseStats}

DmgMoves ==
    {NewMove("Water Gun", t, c, p, pp, 100) :
        t \in DmgMoveTypes, c \in Categories, p \in DmgPowers, pp \in DmgPP}

DamageCalls ==
    {[op |-> "calculate_damage", attacker |-> a, defender |-> d, move |-> m, str_hash |-> h] :
        a \in DmgAttackers, d \in DmgDefenders, m \in DmgMoves, h \in RollSamples}

InitDamage ==
    /\ battle_state = NewBattleState
    /\ stateObjHash \in [Helpers -> HashSamples]
    /\ \E c \in DamageCalls : last = Pending(c)

NextDamage == CalculateDamage

SpecDamage == InitDamage /\ [][NextDamage]_vars

(***************************************************************************)
(* Move suggestion. The call to make is drawn when the behaviour starts.   *)
(***************************************************************************)
SuggestMove ==
    /\ IsPending("suggest_move")
    /\ last' = Returned(last,
                  suggest_move(stateObjHash[last.helper], last.attacker, last.defender,
                               last.available_moves, last.str_hash))
    /\ UNCHANGED <<battle_state, stateObjHash>>

MoveAttackers == {Pikachu, PikachuTwoMoves, NoMoves, NoPP, NormalWithLick}
MoveDefenders == {Geodude, Gyarados, GhostDefender}
CandidateMoves == {Thunderbolt, SpentThunderbolt, Lick}
AvailableMoves ==
    {None} \cup {PyList(ms) : ms \in SeqsUpTo(CandidateMoves, MaxCandidates)}

SuggestCalls ==
    {[op |-> "suggest_move", helper |-> hp, attacker |-> a, defender |-> d,
      available_moves |-> am, str_hash |-> h] :
        hp \in Helpers, a \in MoveAttackers, d \in MoveDefenders, am \in AvailableMoves,
        h \in RollSamples}

InitMove ==
    /\ battle_state = NewBattleState
    /\ stateObjHash \in [Helpers -> HashSamples]
    /\ \E c \in SuggestCalls : last = Pending(c)

NextMove == SuggestMove

SpecMove == InitMove /\ [][NextMove]_vars

(***************************************************************************)
(* The scoring of one candidate move, BattleHelper._evaluate_move, called  *)
(* on its own. The call to make is drawn when the behaviour starts.        *)
(***************************************************************************)
EvaluateMove ==
    /\ IsPending("_evaluate_move")
    /\ last' = Returned(last, evaluate_move(last.attacker, last.defender, last.move))
    /\ UNCHANGED <<battle_state, stateObjHash>>

EvaluatedMoves == {Thunderbolt, SpentThunderbolt, QuickAttack, Tackle, Splash, Lick, NoPPMove}

EvaluateCalls ==
    {[op |-> "_evaluate_move", attacker |-> a, defender |-> d, move |-> m] :
        a \in MoveAttackers, d \in MoveDefenders, m \in EvaluatedMoves}

InitEvaluate ==
    /\ battle_state = NewBattleState
    /\ stateObjHash \in [Helpers -> HashSamples]
    /\ \E c \in EvaluateCalls : last = Pending(c)

NextEvaluate == EvaluateMove

SpecEvaluate == InitEvaluate /\ [][NextEvaluate]_vars

(***************************************************************************)
(* The battle state of the caller's helper: updates and decisions          *)
(***************************************************************************)
NoKwargs == [k \in {} |-> None]
Kwarg(key, value) == [k \in {key} |-> value]

UpdateArgs(player, opponent, phase, kwargs) ==
    [player_pokemon |-> player, opponent_pokemon |-> opponent, battle_phase |-> phase,
     kwargs |-> kwargs]

\* Sampled calls: one supplied field at a time, the tests' call with the three
\* named arguments, and calls that supply a falsy value or an unknown keyword
UpdateCalls ==
    {UpdateArgs(p, None, None, NoKwargs) : p \in PlayerPool}
    \cup {UpdateArgs(None, o, None, NoKwargs) : o \in OpponentPool}
    \cup {UpdateArgs(None, None, PyStr(ph), NoKwargs) : ph \in Phases \cup {""}}
    \cup {UpdateArgs(p, o, PyStr("PlayerTurn"), NoKwargs) :
            p \in {Pikachu}, o \in OpponentPool}
    \cup {UpdateArgs(None, None, None, Kwarg("player_items", items)) : items \in ItemLists}
    \cup {UpdateArgs(None, None, None, Kwarg("party_pokemon", party)) :
            party \in SeqsUpTo(BenchPool, MaxParty)}
    \cup {UpdateArgs(None, None, None, Kwarg(flag, b)) :
            flag \in {"can_switch", "can_use_items"}, b \in BOOLEAN}
    \cup {UpdateArgs(None, None, None, Kwarg("weather", PyStr("Rain")))}

UpdateBattleState(args) ==
    /\ battle_state' = update_battle_state(battle_state, args)
    /\ last' = [op |-> "update_battle_state", done |-> TRUE, args |-> args]
    /\ UNCHANGED stateObjHash

\* A composer that spends one PP of the active creature's first move
GetBattleDecision_SpendsPP(h) ==
    /\ last' = [op |-> "get_battle_decision", done |-> TRUE, str_hash |-> h,
                result |-> get_battle_decision(stateObjHash["caller"], battle_state, h)]
    /\ battle_state' =
          IF ~NotInitialized(battle_state) /\ Len(battle_state.player_pokemon.moves) > 0
          THEN [battle_state EXCEPT !.player_pokemon.moves[1].pp = @ - 1]
          ELSE battle_state
    /\ UNCHANGED stateObjHash

GetBattleDecision(h) ==
    /\ last' = [op |-> "get_battle_decision", done |-> TRUE, str_hash |-> h,
                result |-> get_battle_decision(stateObjHash["caller"], battle_state, h)]
    /\ UNCHANGED <<battle_state, stateObjHash>>

\* The advisors called directly on the objects the battle state holds (a
\* caller passes the active creature, the opponent, the bench and the
\* inventory it has stored). No advisor assigns to an attribute of an
\* argument or of the battle state.
DirectCalculateDamage(h) ==
    /\ ~NotInitialized(battle_state)
    /\ Len(battle_state.player_pokemon.moves) > 0
    /\ LET call == [op |-> "calculate_damage", attacker |-> battle_state.player_pokemon,
                    defender |-> battle_state.opponent_pokemon,
                    move |-> battle_state.player_pokemon.moves[1], str_hash |-> h]
       IN last' = Returned(call,
                     [hp \in Helpers |->
                         calculate_damage(stateObjHash[hp], call.attacker, call.defender,
                                          call.move, h)])
    /\ UNCHANGED <<battle_state, stateObjHash>>

DirectSuggestMove(h) ==
    /\ ~NotInitialized(battle_state)
    /\ LET call == [op |-> "suggest_move", helper |-> "caller",
                    attacker |-> battle_state.player_pokemon,
                    defender |-> battle_state.opponent_pokemon,
                    available_moves |-> None, str_hash |-> h]
       IN last' = Returned(call,
                     suggest_move(stateObjHash["caller"], call.attacker, call.defender,
                                  None, h))
    /\ UNCHANGED <<battle_state, stateObjHash>>

DirectShouldSwitch ==
    /\ ~NotInitialized(battle_state)
    /\ LET call == [op |-> "should_switch_pokemon",
                    current_pokemon |-> battle_state.player_pokemon,
                    opponent_pokemon |-> battle_state.opponent_pokemon,
                    available_party |-> battle_state.party_pokemon]
       IN last' = Returned(call,
                     should_switch_pokemon(battle_state, call.current_pokemon,
                                           call.opponent_pokemon, call.available_party))
    /\ UNCHANGED <<battle_state, stateObjHash>>

DirectShouldUseItem ==
    /\ ~IsNone(battle_state.player_pokemon)
    /\ LET call == [op |-> "should_use_item", pokemon |-> battle_state.player_pokemon,
                    available_items |-> battle_state.player_items]
       IN last' = Returned(call,
                     should_use_item(battle_state, call.pokemon, call.available_items))
    /\ UNCHANGED <<battle_state, stateObjHash>>

Next ==
    \/ \E args \in UpdateCalls : UpdateBattleState(args)
    \/ \E h \in RollSamples : GetBattleDecision(h)
    \/ \E h \in RollSamples : DirectCalculateDamage(h)
    \/ \E h \in RollSamples : DirectSuggestMove(h)
    \/ DirectShouldSwitch
    \/ DirectShouldUseItem

Spec == Init /\ [][Next]_vars

(***************************************************************************)
(* Switch advice asked for directly. The call to make is drawn when the    *)
(* behaviour starts; the helper's battle state carries the can_switch flag.*)
(***************************************************************************)
ShouldSwitchPokemon ==
    /\ IsPending("should_switch_pokemon")
    /\ last' = Returned(last,
                  should_switch_pokemon(battle_state, last.current_pokemon,
                                        last.opponent_pokemon, last.available_party))
    /\ UNCHANGED <<battle_state, stateObjHash>>

\* A second Pokemon object built from the same data as the active creature:
\* get_current_battle_state builds the active creature and every party
\* member with separate _create_pokemon_from_data calls.
NoMovesCopy == [NoMoves EXCEPT !.obj = "nomoves_copy"]
\* Pokemon("Defender", 1, [NORMAL], 100, 10, 10, 10, 10, [])
Defender == NewPokemon("defender", "Defender", 1, <<"Normal">>, 100, 10, 10, 10, 10, <<>>)

SwitchActives == {Pikachu, NoMoves}
SwitchOpponents == {Geodude, Gyarados, Defender}
SwitchBench == {Raichu, NoPP, NoMoves, NoMovesCopy, BuiltFainted}

SwitchCalls ==
    {[op |-> "should_switch_pokemon", current_pokemon |-> c, opponent_pokemon |-> o,
      available_party |-> party] :
        c \in SwitchActives, o \in SwitchOpponents,
        party \in SeqsUpTo(SwitchBench, MaxParty)}

InitSwitch ==
    /\ \E b \in BOOLEAN : battle_state = [NewBattleState EXCEPT !.can_switch = b]
    /\ stateObjHash \in [Helpers -> HashSamples]
    /\ \E c \in SwitchCalls : last = Pending(c)

NextSwitch == ShouldSwitchPokemon

SpecSwitch == InitSwitch /\ [][NextSwitch]_vars

(***************************************************************************)
(* Item advice asked for directly. hp and status_condition are plain       *)
(* attributes that the owner of a Pokemon assigns after construction.      *)
(***************************************************************************)
ShouldUseItem ==
    /\ IsPending("should_use_item")
    /\ last' = Returned(last,
                  should_use_item(battle_state, last.pokemon, last.available_items))
    /\ UNCHANGED <<battle_state, stateObjHash>>

\* Pokemon("Pikachu", 25, [ELECTRIC], 15, 55, 40, 50, 90, [])
InjuredPikachu ==
    NewPokemon("injured_pikachu", "Pikachu", 25, <<"Electric">>, 15, 55, 40, 50, 90, <<>>)
WithStatus(pokemon, status) == [pokemon EXCEPT !.status_condition = status]

\* hp out of max_hp 80: 23 is below 0.3, 24 is 0.3, 64 is 0.8, 65 is above 0.8
ItemHPs == {0, 23, 24, 64, 65, 80}
StatusConditions == {None, PyStr("Poison")}
ItemPokemon ==
    {WithStatus(p, st) :
        p \in {WithHP(Pikachu, "pikachu", hp) : hp \in ItemHPs}
                 \cup {InjuredPikachu, BuiltFainted},
        st \in StatusConditions}
ItemInventories ==
    {<<>>, <<"Potion">>, <<"Full Restore">>, <<"Potion", "Full Restore">>, <<"Antidote">>}

ItemCalls ==
    {[op |-> "should_use_item", pokemon |-> p, available_items |-> items] :
        p \in ItemPokemon, items \in ItemInventories}

InitItem ==
    /\ \E b \in BOOLEAN : battle_state = [NewBattleState EXCEPT !.can_use_items = b]
    /\ stateObjHash \in [Helpers -> HashSamples]
    /\ \E c \in ItemCalls : last = Pending(c)

NextItem == ShouldUseItem

SpecItem == InitItem /\ [][NextItem]_vars

(***************************************************************************)
(* The wrappers over dictionaries. The call to make is drawn when the      *)
(* behaviour starts.                                                       *)
(***************************************************************************)
GetTypeEffectiveness ==
    /\ IsPending("get_type_effectiveness")
    /\ last' = Returned(last, get_type_effectiveness(last.attack_type, last.defense_type))
    /\ UNCHANGED <<battle_state, stateObjHash>>

CalculateDamageFlat ==
    /\ IsPending("calculate_damage_flat")
    /\ last' = Returned(last,
                  calculate_damage_flat(stateObjHash["module"], last.attacker, last.defender,
                                        last.move, last.str_hash))
    /\ UNCHANGED <<battle_state, stateObjHash>>

SuggestMoveFlat ==
    /\ IsPending("suggest_move_flat")
    /\ last' = Returned(last,
                  suggest_move_flat(stateObjHash["module"], last.attacker, last.defender,
                                    last.available_moves, last.str_hash))
    /\ UNCHANGED <<battle_state, stateObjHash>>

\* The dictionaries of test_suggest_move_convenience
ThunderboltDict ==
    PyDict([name |-> "Thunderbolt", type |-> "Electric", category |-> "Special",
            power |-> 95, pp |-> 15])
QuickAttackDict ==
    PyDict([name |-> "Quick Attack", type |-> "Normal", category |-> "Physical",
            power |-> 40, pp |-> 30])
SplashDict ==
    PyDict([name |-> "Splash", type |-> "Water", category |-> "Status",
            power |-> 0, pp |-> 40])
PikachuDict ==
    PyDict([species |-> "Pikachu", level |-> 25, types |-> <<"Electric">>, hp |-> 80,
            attack |-> 55, defense |-> 40, special |-> 50, speed |-> 90,
            moves |-> <<ThunderboltDict, QuickAttackDict>>])
GyaradosDict ==
    PyDict([species |-> "Gyarados", level |-> 30, types |-> <<"Water", "Flying">>,
            hp |-> 120, attack |-> 125, defense |-> 79, special |-> 100, speed |-> 81,
            moves |-> <<SplashDict>>])

\* Malformed variants of a dictionary
Without(v, key) == PyDict([k \in DOMAIN v.d \ {key} |-> v.d[k]])
WithEntry(v, key, value) == PyDict([k \in DOMAIN v.d |-> IF k = key THEN value ELSE v.d[k]])

\* "Fairy" is not the value of a PokemonType member
FlatTypeNames == PokemonType \cup {"Fairy", ""}
FlatAttackers ==
    {PikachuDict, Without(PikachuDict, "speed"), WithEntry(PikachuDict, "types", <<"Fairy">>),
     WithEntry(PikachuDict, "moves", <<>>), PyStr("Pikachu")}
FlatDefenders ==
    {GyaradosDict, Without(GyaradosDict, "level"),
     WithEntry(GyaradosDict, "types", <<"Water", "Fairy">>), None}
FlatMoves ==
    {ThunderboltDict, Without(ThunderboltDict, "category"),
     WithEntry(ThunderboltDict, "type", "Fairy"), Without(ThunderboltDict, "power"),
     Without(ThunderboltDict, "pp"), PyStr("Thunderbolt")}
FlatAvailableMoves ==
    {None, PyList(<<>>), PyList(<<QuickAttackDict>>),
     PyList(<<WithEntry(ThunderboltDict, "type", "Fairy")>>)}

FlatCalls ==
    {[op |-> "get_type_effectiveness", attack_type |-> a, defense_type |-> d] :
        a \in FlatTypeNames, d \in FlatTypeNames}
    \cup {[op |-> "calculate_damage_flat", attacker |-> a, defender |-> d, move |-> m,
           str_hash |-> h] :
        a \in FlatAttackers, d \in FlatDefenders, m \in FlatMoves, h \in RollSamples}
    \cup {[op |-> "suggest_move_flat", attacker |-> a, defender |-> d,
           available_moves |-> am, str_hash |-> h] :
        a \in FlatAttackers, d \in FlatDefenders, am \in FlatAvailableMoves,
        h \in RollSamples}

InitFlat ==
    /\ battle_state = NewBattleState
    /\ stateObjHash \in [Helpers -> HashSamples]
    /\ \E c \in FlatCalls : last = Pending(c)

NextFlat ==
    \/ GetTypeEffectiveness
    \/ CalculateDamageFlat
    \/ SuggestMoveFlat

SpecFlat == InitFlat /\ [][NextFlat]_vars

(***************************************************************************)
(* MistralAPI._make_request of agent_core/mistral_api.py: the retry loop   *)
(* around session.request. last holds the call in progress: the loop       *)
(* variable attempt, the position pc in the loop body, the outcome of each *)
(* HTTP attempt made so far (calls) and each time.sleep made so far        *)
(* (sleeps).                                                               *)
(***************************************************************************)
\* Largest max_retries argument drawn
MaxRetries == 4

\* What one session.request can come to: a requests exception, a 2xx response
\* whose body validates, a 2xx response whose JSON body fails validation, a
\* 2xx response whose body is not JSON, a response with another status code
RequestOutcomes ==
    {"ConnectionError", "Timeout", "Valid2xx", "Invalid2xx", "NotJson2xx", "ErrorStatus"}

\* requests.exceptions.ConnectionError and Timeout derive from RequestException
IsRequestException(outcome) == outcome \in {"ConnectionError", "Timeout"}

APIResponseModel == [py |-> "APIResponseModel"]

\* A comparison against max_retries, which the loop variable never reaches
is_last_attempt_past_end(attempt, max_retries) == attempt = max_retries

\* attempt == max_retries - 1
is_last_attempt(attempt, max_retries) == attempt = max_retries - 1

\* time.sleep(2 ** attempt)
backoff(attempt) == 2 ^ attempt

\* for attempt in range(max_retries): the iteration after attempt, or the end
\* of the function, which returns None
next_iteration(call, attempt) ==
    IF attempt < call.max_retries
        THEN [call EXCEPT !.pc = "request", !.attempt = attempt]
        ELSE Returned(call, Return(None))

\* url = f"{self.base_url}/{endpoint}": a client built without an API key has
\* session None and no base_url attribute. Then the loop is entered.
EnterMakeRequest ==
    /\ IsPending("_make_request")
    /\ last.pc = "enter"
    /\ last' = IF ~last.has_key
                  THEN Returned(last, Raise("AttributeError"))
                  ELSE next_iteration(last, 0)
    /\ UNCHANGED <<battle_state, stateObjHash>>

\* The body of the try statement with what session.request comes to, and the
\* except clause up to the call of time.sleep. json_error_is_request_exception:
\* response.json() on a body that is not JSON raises
\* requests.exceptions.JSONDecodeError, a RequestException, in requests >= 2.27
\* and a plain ValueError before.
Request(outcome, json_error_is_request_exception) ==
    /\ IsPending("_make_request")
    /\ last.pc = "request"
    /\ LET call == [last EXCEPT !.calls = Append(@, outcome)]
           caught == \/ IsRequestException(outcome)
                     \/ outcome = "NotJson2xx" /\ json_error_is_request_exception
       IN last' =
            CASE outcome = "Valid2xx" -> Returned(call, Return(APIResponseModel))
              [] outcome = "Invalid2xx" -> Returned(call, Raise("MistralAPIError"))
              [] outcome = "ErrorStatus" -> Returned(call, Raise("MistralAPIError"))
              [] outcome = "NotJson2xx" /\ ~json_error_is_request_exception ->
                    Returned(call, Raise("ValueError"))
              [] caught /\ is_last_attempt(last.attempt, last.max_retries) ->
                    Returned(call, Raise("MistralAPIError"))
              [] caught /\ ~is_last_attempt(last.attempt, last.max_retries) ->
                    [call EXCEPT !.pc = "sleep"]
    /\ UNCHANGED <<battle_state, stateObjHash>>

\* time.sleep(2 ** attempt) returns and the loop goes on
Sleep ==
    /\ IsPending("_make_request")
    /\ last.pc = "sleep"
    /\ last' = next_iteration([last EXCEPT !.sleeps = Append(@, backoff(last.attempt))],
                              last.attempt + 1)
    /\ UNCHANGED <<battle_state, stateObjHash>>

MakeRequestCalls ==
    {[op |-> "_make_request", has_key |-> k, max_retries |-> n, attempt |-> 0,
      pc |-> "enter", calls |-> <<>>, sleeps |-> <<>>] :
        k \in BOOLEAN, n \in 0 .. MaxRetries}

InitRetry ==
    /\ battle_state = NewBattleState
    /\ \E c \in HashSamples : stateObjHash = [h \in Helpers |-> c]
    /\ \E c \in MakeRequestCalls : last = Pending(c)

NextRetry ==
    \/ EnterMakeRequest
    \/ \E outcome \in RequestOutcomes, b \in BOOLEAN : Request(outcome, b)
    \/ Sleep

\* The thread runs on, and time.sleep returns; session.request is called
\* without a timeout and need not return.
SpecRetry ==
    InitRetry /\ [][NextRetry]_vars /\ WF_vars(EnterMakeRequest) /\ WF_vars(Sleep)

(***************************************************************************)
(* MistralAPI.__init__ followed by requests on the constructed client.     *)
(* The constructor call (its api_key argument and the MISTRAL_API_KEY      *)
(* entry of the environment) is drawn when the behaviour starts.           *)
(***************************************************************************)
\* Truth value of an optional string: None and "" are false
HasText(v) == ~IsNone(v) /\ v # PyStr("")

\* self.api_key = api_key or os.getenv("MISTRAL_API_KEY")
api_key_or_env(api_key, env_key) == IF HasText(api_key) THEN api_key ELSE env_key

\* MistralAPI.__init__: without a key it logs a warning, sets api_key and
\* session to None and returns before base_url is assigned
MistralAPI_init(api_key, env_key) ==
    LET key == api_key_or_env(api_key, env_key)
    IN IF ~HasText(key)
           THEN Return([py |-> "MistralAPI", api_key |-> None, session |-> FALSE,
                        base_url |-> FALSE])
           ELSE Return([py |-> "MistralAPI", api_key |-> key, session |-> TRUE,
                        base_url |-> TRUE])

ConstructMistralAPI ==
    /\ IsPending("MistralAPI")
    /\ last' = Returned(last, MistralAPI_init(last.api_key, last.env_key))
    /\ UNCHANGED <<battle_state, stateObjHash>>

\* A _make_request call on the constructed client
CallMakeRequest(max_retries) ==
    /\ IsReturned("MistralAPI")
    /\ last.result.raised = "none"
    /\ last' = Pending([op |-> "_make_request",
                        has_key |-> last.result.value.base_url,
                        max_retries |-> max_retries, attempt |-> 0,
                        pc |-> "enter", calls |-> <<>>, sleeps |-> <<>>])
    /\ UNCHANGED <<battle_state, stateObjHash>>

ApiKeys == {None, PyStr(""), PyStr("test_api_key_123")}
EnvKeys == {None, PyStr(""), PyStr("env_api_key_456")}

ConstructorCalls ==
    {[op |-> "MistralAPI", api_key |-> k, env_key |-> e] : k \in ApiKeys, e \in EnvKeys}

InitClient ==
    /\ battle_state = NewBattleState
    /\ \E c \in HashSamples : stateObjHash = [h \in Helpers |-> c]
    /\ \E c \in ConstructorCalls : last = Pending(c)

NextClient ==
    \/ ConstructMistralAPI
    \/ \E n \in 0 .. MaxRetries : CallMakeRequest(n)
    \/ NextRetry

SpecClient == InitClient /\ [][NextClient]_vars

(***************************************************************************)
(* StateDetector.detect_state of state_detector/game_state.py. A call      *)
(* carries whether a memory object was passed and the bytes the memory map *)
(* reads at the addresses the detector looks at.                           *)
(***************************************************************************)
GameState == {"OVERWORLD", "BATTLE", "DIALOG", "MENU"}

\* text_box_state != 0 or text_box_active != 0
is_in_dialog(reads) == reads.text_box_state # 0 \/ reads.text_box_active # 0

\* menu_open != 0 or inventory_menu != 0
is_in_menu(reads) == reads.menu_open # 0 \/ reads.inventory_menu # 0

\* memory_given is FALSE for detect_state() and detect_state(None)
detect_state(memory_given, reads) ==
    IF ~memory_given THEN "OVERWORLD"
    ELSE IF reads.in_battle_flag = 1 THEN "BATTLE"
    ELSE IF reads.battle_type \in {1, 2, 3} THEN "BATTLE"
    ELSE IF is_in_dialog(reads) THEN "DIALOG"
    ELSE IF is_in_menu(reads) THEN "MENU"
    ELSE "OVERWORLD"

DetectState ==
    /\ IsPending("detect_state")
    /\ last' = Returned(last, Return(detect_state(last.memory_given, last.reads)))
    /\ UNCHANGED <<battle_state, stateObjHash>>

\* Sampled bytes at 0xD057, 0xD05A, 0xC058, 0xCD6A, 0xCC26, 0xD31E
MemoryReads ==
    [in_battle_flag : {0, 1, 2}, battle_type : {0, 1, 3, 4},
     text_box_state : {0, 1}, text_box_active : {0, 255},
     menu_open : {0, 1}, inventory_menu : {0, 7}]

DetectCalls ==
    {[op |-> "detect_state", memory_given |-> g, reads |-> r] :
        g \in BOOLEAN, r \in MemoryReads}

InitDetect ==
    /\ battle_state = NewBattleState
    /\ \E c \in HashSamples : stateObjHash = [h \in Helpers |-> c]
    /\ \E c \in DetectCalls : last = Pending(c)

NextDetect == DetectState

SpecDetect == InitDetect /\ [][NextDetect]_vars

(***************************************************************************)
(* Pathfinder.astar of tools/pathfinder.py. A position is <<x, y>> with x  *)
(* the row; the grid is a function from positions to 0 (passable) or 1     *)
(* (obstacle). Dictionaries are functions whose domain is the set of keys. *)
(* last holds the search in progress: frontier (the heap, as the set of    *)
(* its <<priority, position>> entries), came_from and cost_so_far.         *)
(***************************************************************************)
\* Grid size drawn
GridRows == 2
GridCols == 3

Positions == (0 .. GridRows - 1) \X (0 .. GridCols - 1)

\* directions = [('UP', (x-1, y)), ('DOWN', (x+1, y)), ('LEFT', (x, y-1)), ('RIGHT', (x, y+1))]
Directions(node) ==
    << [direction |-> "UP", position |-> <<node[1] - 1, node[2]>>],
       [direction |-> "DOWN", position |-> <<node[1] + 1, node[2]>>],
       [direction |-> "LEFT", position |-> <<node[1], node[2] - 1>>],
       [direction |-> "RIGHT", position |-> <<node[1], node[2] + 1>>] >>

\* Pathfinder._is_valid_position
is_valid_position(position) ==
    /\ 0 <= position[1] /\ position[1] < GridRows
    /\ 0 <= position[2] /\ position[2] < GridCols

\* Pathfinder.get_neighbors: the in-bounds neighbours that are not 1, each
\* with cost = self.grid[nx][ny], in the order of directions
get_neighbors(grid, node) ==
    SelectSeq([i \in 1 .. 4 |->
                  LET d == Directions(node)[i]
                  IN [position |-> d.position, direction |-> d.direction,
                      cost |-> IF is_valid_position(d.position)
                                  THEN grid[d.position] ELSE 0]],
              LAMBDA n : is_valid_position(n.position) /\ grid[n.position] # 1)

Abs(n) == IF n < 0 THEN -n ELSE n

\* Pathfinder._heuristic: Manhattan distance
heuristic(a, b) == Abs(a[1] - b[1]) + Abs(a[2] - b[2])

\* The for loop over the neighbours of current, from the i-th on: a neighbour
\* not yet in cost_so_far, or reached at a lower cost, is recorded and pushed
RECURSIVE explore_neighbors(_, _, _, _, _)
explore_neighbors(search, neighbors, i, current, goal) ==
    IF i > Len(neighbors) THEN search
    ELSE LET n == neighbors[i]
             new_cost == search.cost_so_far[current] + n.cost
             better == \/ n.position \notin DOMAIN search.cost_so_far
                       \/ new_cost < search.cost_so_far[n.position]
             pushed ==
                 [search EXCEPT
                    !.cost_so_far = (n.position :> new_cost) @@ @,
                    !.frontier = @ \cup {<<new_cost + heuristic(n.position, goal),
                                           n.position>>},
                    !.came_from = (n.position :>
                                     [py |-> "tuple", parent |-> current,
                                      direction |-> n.direction]) @@ @]
         IN explore_neighbors(IF better THEN pushed ELSE search,
                              neighbors, i + 1, current, goal)

\* Pathfinder._reconstruct_path: while current is not None, unpack
\* came_from[current] into (current, direction) and collect the direction.
\* came_from[start] is None, which does not unpack.
RECURSIVE reconstruct_path(_, _, _)
reconstruct_path(came_from, current, path) ==
    IF IsNone(came_from[current]) THEN Raise("TypeError")
    ELSE reconstruct_path(came_from, came_from[current].parent,
                          <<came_from[current].direction>> \o path)

\* The edge cases at the head of astar, then the first push
BeginAstar ==
    /\ IsPending("astar")
    /\ last.pc = "begin"
    /\ last' =
         IF last.start = last.goal THEN Returned(last, Return(<<>>))
         ELSE IF ~is_valid_position(last.start) \/ ~is_valid_position(last.goal)
             THEN Returned(last, Return(None))
         ELSE IF last.grid[last.start] = 1 THEN Returned(last, Return(None))
         ELSE [last EXCEPT !.pc = "search",
                           !.frontier = {<<heuristic(last.start, last.goal), last.start>>},
                           !.came_from = (last.start :> None),
                           !.cost_so_far = (last.start :> 0)]
    /\ UNCHANGED <<battle_state, stateObjHash>>

\* One pass of the while loop: heappop gives an entry of least priority (among
\* entries of equal priority the heap's order decides; any of them is allowed
\* here), the goal ends the search, otherwise the neighbours are explored.
\* An empty frontier ends the loop with None.
PopFrontier(entry) ==
    /\ IsPending("astar")
    /\ last.pc = "search"
    /\ entry \in last.frontier
    /\ \A e \in last.frontier : entry[1] <= e[1]
    /\ LET current == entry[2]
           popped == [last EXCEPT !.frontier = @ \ {entry}]
       IN last' =
            IF current = last.goal
                THEN Returned(popped, reconstruct_path(last.came_from, current, <<>>))
                ELSE explore_neighbors(popped, get_neighbors(last.grid, current), 1,
                                       current, last.goal)
    /\ UNCHANGED <<battle_state, stateObjHash>>

FrontierEmpty ==
    /\ IsPending("astar")
    /\ last.pc = "search"
    /\ last.frontier = {}
    /\ last' = Returned(last, Return(None))
    /\ UNCHANGED <<battle_state, stateObjHash>>

Grids == [Positions -> {0, 1}]

AstarCalls ==
    {[op |-> "astar", grid |-> g, start |-> s, goal |-> t, pc |-> "begin",
      frontier |-> {}, came_from |-> <<>>, cost_so_far |-> <<>>] :
        g \in Grids, s \in Positions, t \in Positions}

InitPath ==
    /\ battle_state = NewBattleState
    /\ stateObjHash = [h \in Helpers |-> 0]
    /\ \E c \in AstarCalls : last = Pending(c)

NextPath ==
    \/ BeginAstar
    \/ \E entry \in (0 .. 2 * (GridRows + GridCols)) \X Positions : PopFrontier(entry)
    \/ FrontierEmpty

SpecPath == InitPath /\ [][NextPath]_vars

(***************************************************************************)
(* AgentCore.adjust_frame_skip of agent_core/agent_core.py, called once    *)
(* per pass of the main loop. last holds the agent's frame_skip with the   *)
(* memory of the latest call and the game state detected from it.          *)
(***************************************************************************)
max_frames_to_skip == 60

\* str(game_state).lower(): GameState is a plain Enum, whose str() is the
\* class name, a dot and the member name
str_lower(game_state) ==
    CASE game_state = "OVERWORLD" -> "gamestate.overworld"
      [] game_state = "BATTLE" -> "gamestate.battle"
      [] game_state = "DIALOG" -> "gamestate.dialog"
      [] game_state = "MENU" -> "gamestate.menu"

Min(a, b) == IF a < b THEN a ELSE b
Max(a, b) == IF a > b THEN a ELSE b

\* The body of the try statement, game_state being what detect_state returned
adjusted_frame_skip(frame_skip, game_state) ==
    IF str_lower(game_state) \in {"battle", "menu", "dialog"}
        THEN Min(frame_skip + 1, max_frames_to_skip)
        ELSE Max(1, frame_skip - 1)

\* AgentCore.__init__: frame_skip = 1
NewAgentCore == [op |-> "adjust_frame_skip", done |-> TRUE, frame_skip |-> 1,
                 memory_given |-> FALSE, reads |-> None, game_state |-> None]

\* One call. get_memory gives None (no emulator memory) or a memory object;
\* fails: get_memory or detect_state raises, and the except clause sets
\* frame_skip to 1.
AdjustFrameSkip(memory_given, reads, fails) ==
    /\ last.op = "adjust_frame_skip"
    /\ last' =
         IF fails
             THEN [last EXCEPT !.frame_skip = 1, !.memory_given = memory_given,
                               !.reads = reads, !.game_state = Raise("Exception")]
             ELSE LET game_state == detect_state(memory_given, reads)
                  IN [last EXCEPT !.frame_skip = adjusted_frame_skip(@, game_state),
                                  !.memory_given = memory_given,
                                  !.reads = reads,
                                  !.game_state = Return(game_state)]
    /\ UNCHANGED <<battle_state, stateObjHash>>

InitFrameSkip ==
    /\ battle_state = NewBattleState
    /\ stateObjHash = [h \in Helpers |-> 0]
    /\ last = NewAgentCore

NextFrameSkip ==
    \E g \in BOOLEAN, r \in MemoryReads, f \in BOOLEAN : AdjustFrameSkip(g, r, f)

SpecFrameSkip == InitFrameSkip /\ [][NextFrameSkip]_vars

(***************************************************************************)
(* The input queue of PokemonEmulator (emulator/emulator.py) on a started  *)
(* emulator: callers enqueue through send_input, and two threads, the      *)
(* input thread (_input_thread_main) and the tick loop (tick), call        *)
(* _process_input_queue. last holds the emulator's fields, the position of *)
(* each of the two threads inside _process_input_queue, and the presses    *)
(* and releases the PyBoy instance has received.                           *)
(***************************************************************************)
MaxInputs == 3

Threads == {"input_thread", "tick"}

valid_buttons == {"up", "down", "left", "right", "a", "b", "start", "select"}

\* The buttons and the durations callers send: "zero" is not slept
\* (duration > 0 is false), "positive" is slept, "inf" is float('inf'),
\* which passes duration > 0 and for which time.sleep raises OverflowError.
SentButtons == {"a", "x"}
SentDurations == {"zero", "positive", "inf"}

\* PokemonEmulator.__init__ followed by load_rom and start
NewEmulator ==
    [op |-> "input_queue", done |-> TRUE,
     input_queue |-> <<>>, processing_inputs |-> FALSE, input_lock |-> "free",
     frame_count |-> 0, sent |-> 0, send_result |-> None,
     pc |-> [t \in Threads |-> "idle"],
     current |-> [t \in Threads |-> None],
     presses |-> <<>>]

\* send_input(button, duration): the put is made under _input_lock
SendInput(button, duration) ==
    /\ last.op = "input_queue"
    /\ last.sent < MaxInputs
    /\ IF button \notin valid_buttons
           THEN last' = [last EXCEPT !.send_result = Return(FALSE)]
           ELSE /\ last.input_lock = "free"
                /\ last' = [last EXCEPT
                      !.sent = @ + 1,
                      !.input_queue = Append(@, [py |-> "tuple", id |-> last.sent + 1,
                                                 button |-> button,
                                                 duration |-> duration]),
                      !.send_result = Return(TRUE)]
    /\ UNCHANGED <<battle_state, stateObjHash>>

\* tick: one frame that is not a multiple of 5 processes no input
TickFrame ==
    /\ last.op = "input_queue"
    /\ last.pc["tick"] = "idle"
    /\ (last.frame_count + 1) % 5 # 0
    /\ last' = [last EXCEPT !.frame_count = (@ + 1) % 5]
    /\ UNCHANGED <<battle_state, stateObjHash>>

\* _process_input_queue line 397: the thread takes _input_lock. The input
\* thread calls it on every pass of its loop, the tick loop on every fifth
\* frame.
AcquireLock(t) ==
    /\ last.op = "input_queue"
    /\ last.pc[t] = "idle"
    /\ t = "tick" => (last.frame_count + 1) % 5 = 0
    /\ last.input_lock = "free"
    /\ last' = [last EXCEPT !.input_lock = t, !.pc[t] = "guard",
                            !.frame_count = IF t = "tick" THEN 0 ELSE @]
    /\ UNCHANGED <<battle_state, stateObjHash>>

\* Lines 398-401: under the lock, return if a drain is in progress, else set
\* the flag; leaving the with block releases the lock.
guard_passes(processing_inputs) == ~processing_inputs

CheckGuard(t) ==
    /\ last.op = "input_queue"
    /\ last.pc[t] = "guard"
    /\ last' = IF guard_passes(last.processing_inputs)
                   THEN [last EXCEPT !.processing_inputs = TRUE,
                                     !.input_lock = "free", !.pc[t] = "while"]
                   ELSE [last EXCEPT !.input_lock = "free", !.pc[t] = "idle"]
    /\ UNCHANGED <<battle_state, stateObjHash>>

\* Lines 404-405: the loop test and get_nowait
GetInput(t) ==
    /\ last.op = "input_queue"
    /\ last.pc[t] = "while"
    /\ last' = IF last.input_queue = <<>>
                   THEN [last EXCEPT !.pc[t] = "finally"]
                   ELSE [last EXCEPT !.current[t] = Head(last.input_queue),
                                     !.input_queue = Tail(@),
                                     !.pc[t] = "press"]
    /\ UNCHANGED <<battle_state, stateObjHash>>

\* Lines 408-409: pyboy.button_press(button)
ButtonPress(t) ==
    /\ last.op = "input_queue"
    /\ last.pc[t] = "press"
    /\ last' = [last EXCEPT !.presses = Append(@, <<"press", last.current[t].id>>),
                            !.pc[t] = "sleep"]
    /\ UNCHANGED <<battle_state, stateObjHash>>

\* Lines 412-413: time.sleep(duration) if duration > 0; an exception leaves
\* the loop for the except and finally clauses (lines 421-427)
HoldButton(t) ==
    /\ last.op = "input_queue"
    /\ last.pc[t] = "sleep"
    /\ last' = IF last.current[t].duration = "inf"
                   THEN [last EXCEPT !.pc[t] = "finally"]
                   ELSE [last EXCEPT !.pc[t] = "release"]
    /\ UNCHANGED <<battle_state, stateObjHash>>

\* Lines 416-419: pyboy.button_release(button)
ButtonRelease(t) ==
    /\ last.op = "input_queue"
    /\ last.pc[t] = "release"
    /\ last' = [last EXCEPT !.presses = Append(@, <<"release", last.current[t].id>>),
                            !.pc[t] = "while"]
    /\ UNCHANGED <<battle_state, stateObjHash>>

\* Line 426: the finally clause takes _input_lock
FinallyAcquire(t) ==
    /\ last.op = "input_queue"
    /\ last.pc[t] = "finally"
    /\ last.input_lock = "free"
    /\ last' = [last EXCEPT !.input_lock = t, !.pc[t] = "reset"]
    /\ UNCHANGED <<battle_state, stateObjHash>>

\* Line 427: the flag is reset, and the lock released
ResetFlag(t) ==
    /\ last.op = "input_queue"
    /\ last.pc[t] = "reset"
    /\ last' = [last EXCEPT !.processing_inputs = FALSE, !.input_lock = "free",
                            !.pc[t] = "idle", !.current[t] = None]
    /\ UNCHANGED <<battle_state, stateObjHash>>

InitInput ==
    /\ battle_state = NewBattleState
    /\ stateObjHash = [h \in Helpers |-> 0]
    /\ last = NewEmulator

NextInput ==
    \/ \E b \in SentButtons, d \in SentDurations : SendInput(b, d)
    \/ TickFrame
    \/ \E t \in Threads :
          \/ AcquireLock(t)
          \/ CheckGuard(t)
          \/ GetInput(t)
          \/ ButtonPress(t)
          \/ HoldButton(t)
          \/ ButtonRelease(t)
          \/ FinallyAcquire(t)
          \/ ResetFlag(t)

SpecInput == InitInput /\ [][NextInput]_vars

(***************************************************************************)
(* Properties                                                              *)
(***************************************************************************)
Value(r) == r.value
Returns(r) == r.raised = "none"

\* What the three advisors answer on the current battle state
ItemAdvice ==
    should_use_item(battle_state, battle_state.player_pokemon, battle_state.player_items)
SwitchAdvice ==
    should_switch_pokemon(battle_state, battle_state.player_pokemon,
                          battle_state.opponent_pokemon, battle_state.party_pokemon)
MoveAdvice ==
    suggest_move(stateObjHash["caller"], battle_state.player_pokemon,
                 battle_state.opponent_pokemon, None, last.str_hash)

SaysUseItem == Returns(ItemAdvice) /\ ItemAdvice.value.should_use_item
SaysSwitch == Returns(SwitchAdvice) /\ SwitchAdvice.value.should_switch

\* C1: on every initialized battle state get_battle_decision applies the
\* precedence item > switch > move: 'use_item' with the recommended item when
\* the item advisor says yes; otherwise 'switch' with the recommended creature
\* when the switch advisor says yes; otherwise 'move' with the move that
\* suggest_move returns. Only the payload of the chosen kind is set.
C1_Precedence ==
    (IsReturned("get_battle_decision") /\ ~NotInitialized(battle_state)) =>
        /\ Returns(last.result)
        /\ IF SaysUseItem
           THEN /\ last.result.value.action_type = "use_item"
                /\ last.result.value.item = ItemAdvice.value.recommended_item
                /\ IsNone(last.result.value.move) /\ IsNone(last.result.value.switch)
           ELSE IF SaysSwitch
           THEN /\ last.result.value.action_type = "switch"
                /\ last.result.value.switch = SwitchAdvice.value.recommended_pokemon
                /\ IsNone(last.result.value.move) /\ IsNone(last.result.value.item)
           ELSE /\ last.result.value.action_type = "move"
                /\ Returns(MoveAdvice)
                /\ last.result.value.move = MoveAdvice.value.move
                /\ IsNone(last.result.value.switch) /\ IsNone(last.result.value.item)

\* C2: with both creatures set get_battle_decision never raises: it returns a
\* decision whose action_type is 'move', 'switch', 'use_item' or 'unknown' and
\* that carries a reasoning list with a reason, also when no action is possible.
C2_DecisionNeverRaises ==
    (IsReturned("get_battle_decision") /\ ~NotInitialized(battle_state)) =>
        /\ Returns(last.result)
        /\ last.result.value.action_type \in {"move", "switch", "use_item", "unknown"}
        /\ Len(last.result.value.reasoning) > 0

\* C3: called while the active or the opponent creature is not set,
\* get_battle_decision returns {error: 'Battle state not properly
\* initialized'} without raising, calls no advisor and leaves the battle
\* state unchanged.
C3_UninitializedError ==
    [][ (/\ last'.op = "get_battle_decision"
         /\ (IsNone(battle_state.player_pokemon) \/ IsNone(battle_state.opponent_pokemon))) =>
            /\ last'.result.raised = "none"
            /\ last'.result.value = [error |-> "Battle state not properly initialized"]
            /\ last'.result.calls = <<>>
            /\ battle_state' = battle_state ]_vars

\* C3 witness: a decision asked for with the active creature set and the
\* opponent missing
C3_Witness ==
    /\ IsReturned("get_battle_decision")
    /\ ~IsNone(battle_state.player_pokemon) /\ IsNone(battle_state.opponent_pokemon)
    /\ Len(battle_state.party_pokemon) > 0
    /\ "error" \in DOMAIN last.result.value

\* The candidate set of a suggest_move call: the explicit list when one is
\* passed, otherwise the attacker's moves with PP
Candidates ==
    IF IsNone(last.available_moves) THEN get_available_moves(last.attacker)
    ELSE last.available_moves.items
SomeUsableCandidate == \E i \in DOMAIN Candidates : Candidates[i].pp > 0

\* C4: suggest_move returns move = None if and only if the candidate set holds
\* no usable move; then the reason is 'No moves available', the damage 0 and
\* the effectiveness Neutral; a single usable move the defender is immune to
\* is still returned.
C4_NoneIffNoUsable ==
    IsReturned("suggest_move") =>
        /\ Returns(last.result)
        /\ IsNone(last.result.value.move) <=> ~SomeUsableCandidate
        /\ ~SomeUsableCandidate =>
              /\ last.result.value.reason = <<"No moves available">>
              /\ last.result.value.damage = 0
              /\ last.result.value.effectiveness = PyEnum("NEUTRAL")

\* Candidate i scores strictly more than candidate j
ScoresMore(i, j) ==
    ScoreNum(last.attacker, last.defender, Candidates[i]) * ScoreDen(Candidates[j])
        > ScoreNum(last.attacker, last.defender, Candidates[j]) * ScoreDen(Candidates[i])

\* C5: suggest_move returns the candidate whose score is highest, the first of
\* them in input order when several share it; the returned move is an element
\* of the candidate list.
C5_FirstHighestScore ==
    (IsReturned("suggest_move") /\ Len(Candidates) > 0
        /\ \A i \in DOMAIN Candidates : Candidates[i].max_pp > 0) =>
        /\ Returns(last.result)
        /\ \E k \in DOMAIN Candidates :
              /\ last.result.value.move = Candidates[k]
              /\ \A j \in DOMAIN Candidates : ~ScoresMore(j, k)
              /\ \A j \in 1 .. (k - 1) : ScoresMore(k, j)

\* The dual-type effectiveness of the move of a calculate_damage call
DmgEffQ == get_effectiveness_dual_type(last.move.type, last.defender.types)
\* The defending stat the call divides by
DmgDefenseStat ==
    IF is_physical(last.move) THEN last.defender.defense ELSE last.defender.special

\* C6: calculate_damage returns exactly 0 whenever the move is a Status move, or
\* has no remaining uses, or its dual-type effectiveness against the defender
\* is 0, for every level, stat, power, critical-hit and roll value.
C6_ZeroDamage ==
    IsReturned("calculate_damage") =>
        \A h \in Helpers :
            (is_status(last.move) \/ last.move.pp = 0 \/ DmgEffQ = 0)
                => last.result[h] = Return(0)

C8_SameOnEveryHelper ==
    IsReturned("calculate_damage") =>
        \A h1 \in Helpers, h2 \in Helpers : last.result[h1] = last.result[h2]

\* The Generation-1 type chart, the reference of C9: per attacking type the
\* defending types it hits for 2, for 0.5 and for 0; every other pair is 1.
Gen1Chart ==
    [ Normal   |-> [double |-> {}, half |-> {"Rock"}, zero |-> {"Ghost"}],
      Fire     |-> [double |-> {"Grass", "Ice", "Bug"},
                    half |-> {"Fire", "Water", "Rock", "Dragon"}, zero |-> {}],
      Water    |-> [double |-> {"Fire", "Ground", "Rock"},
                    half |-> {"Water", "Grass", "Dragon"}, zero |-> {}],
      Electric |-> [double |-> {"Water", "Flying"},
                    half |-> {"Electric", "Grass", "Dragon"}, zero |-> {"Ground"}],
      Grass    |-> [double |-> {"Water", "Ground", "Rock"},
                    half |-> {"Fire", "Grass", "Poison", "Flying", "Bug", "Dragon"},
                    zero |-> {}],
      Ice      |-> [double |-> {"Grass", "Ground", "Flying", "Dragon"},
                    half |-> {"Water", "Ice"}, zero |-> {}],
      Fighting |-> [double |-> {"Normal", "Ice", "Rock"},
                    half |-> {"Poison", "Flying", "Psychic", "Bug"}, zero |-> {"Ghost"}],
      Poison   |-> [double |-> {"Grass", "Bug"},
                    half |-> {"Poison", "Ground", "Rock", "Ghost"}, zero |-> {}],
      Ground   |-> [double |-> {"Fire", "Electric", "Poison", "Rock"},
                    half |-> {"Grass", "Bug"}, zero |-> {"Flying"}],
      Flying   |-> [double |-> {"Grass", "Fighting", "Bug"},
                    half |-> {"Electric", "Rock"}, zero |-> {}],
      Psychic  |-> [double |-> {"Fighting", "Poison"}, half |-> {"Psychic"}, zero |-> {}],
      Bug      |-> [double |-> {"Grass", "Poison", "Psychic"},
                    half |-> {"Fire", "Fighting", "Flying", "Ghost"}, zero |-> {}],
      Rock     |-> [double |-> {"Fire", "Ice", "Flying", "Bug"},
                    half |-> {"Fighting", "Ground"}, zero |-> {}],
      Ghost    |-> [double |-> {"Ghost"}, half |-> {}, zero |-> {"Normal", "Psychic"}],
      Dragon   |-> [double |-> {"Dragon"}, half |-> {}, zero |-> {}] ]

Gen1Effectiveness(a, d) ==
    CASE d \in Gen1Chart[a].double -> "SUPER_EFFECTIVE"
      [] d \in Gen1Chart[a].half -> "NOT_VERY_EFFECTIVE"
      [] d \in Gen1Chart[a].zero -> "IMMUNE"
      [] OTHER -> "NEUTRAL"

\* C9: for every (attack type, defense type) pair get_effectiveness returns
\* the multiplier of the Generation-1 type chart, Neutral for unlisted pairs.
C9_MatchesGen1Chart ==
    IsReturned("get_effectiveness") =>
        last.result = Gen1Effectiveness(last.attack_type, last.defense_type)

\* The product, in quarters, of the single lookups of a against the distinct
\* types listed in ds
ProductOverListed(a, ds) ==
    IF Len(ds) = 1 \/ ds[1] = ds[2]
    THEN EnumValueQ(get_effectiveness(a, ds[1]))
    ELSE (EnumValueQ(get_effectiveness(a, ds[1]))
          * EnumValueQ(get_effectiveness(a, ds[2]))) \div 4

\* C10: get_effectiveness_dual_type(t, types) is the product of the single
\* lookups of t against the listed defense types, is 0 as soon as one of them
\* is Immune, and for the same type listed twice equals the single lookup.
C10_DualIsProduct ==
    IsReturned("get_effectiveness_dual_type") =>
        /\ last.result = ProductOverListed(last.attack_type, last.defense_types)
        /\ (\E i \in DOMAIN last.defense_types :
               get_effectiveness(last.attack_type, last.defense_types[i]) = "IMMUNE")
             => last.result = 0
        /\ (Len(last.defense_types) = 2 /\ last.defense_types[1] = last.defense_types[2])
             => last.result = EnumValueQ(get_effectiveness(last.attack_type,
                                                           last.defense_types[1]))

\* C11: for every (attack type, defense type) pair the single-type
\* effectiveness is one of the four values 0, 0.5, 1, 2 (0, 2, 4, 8 quarters),
\* and the relation is held per direction: Water against Fire is 2 while Fire
\* against Water is 0.5.
C11_FourValuesPerDirection ==
    IsReturned("get_effectiveness") =>
        /\ last.result \in TypeEffectiveness
        /\ EnumValueQ(last.result) \in {0, 2, 4, 8}
        /\ (last.attack_type = "Water" /\ last.defense_type = "Fire")
              => EnumValueQ(last.result) = 8
        /\ (last.attack_type = "Fire" /\ last.defense_type = "Water")
              => EnumValueQ(last.result) = 2

\* C11 witness: the lookup of Fire against Water has returned 0.5
C11_Witness ==
    /\ IsReturned("get_effectiveness")
    /\ last.attack_type = "Fire" /\ last.defense_type = "Water"
    /\ last.result = "NOT_VERY_EFFECTIVE"

\* Two Pokemon records describe the same creature: every field but the
\* identity of the object is the same
SameCreature(p, q) == [p EXCEPT !.obj = "any"] = [q EXCEPT !.obj = "any"]

\* C12: the creature should_switch_pokemon returns as recommended_pokemon,
\* whether or not should_switch is true, is never a fainted creature and never
\* the currently active creature, also when the bench list holds the active
\* creature or a separate record describing the same creature.
C12_NeverFaintedNeverActive ==
    (/\ IsReturned("should_switch_pokemon")
     /\ Returns(last.result)
     /\ ~IsNone(last.result.value.recommended_pokemon)) =>
        /\ ~is_fainted(last.result.value.recommended_pokemon)
        /\ ~SameCreature(last.result.value.recommended_pokemon, last.current_pokemon)

\* C13: should_use_item never recommends an item when the creature's health
\* ratio hp / max_hp is greater than 0.8, whatever the inventory holds and
\* whatever status condition the creature has.
C13_NoItemWhenHealthy ==
    (/\ IsReturned("should_use_item")
     /\ last.pokemon.max_hp > 0
     /\ 5 * last.pokemon.hp > 4 * last.pokemon.max_hp) =>
        /\ Returns(last.result)
        /\ ~last.result.value.should_use_item
        /\ IsNone(last.result.value.recommended_item)

\* C13 witness: a poisoned creature at 65 of 80 HP asked about an inventory
\* that holds a Full Restore, with item use allowed
C13_Witness ==
    /\ IsReturned("should_use_item")
    /\ battle_state.can_use_items
    /\ last.pokemon.hp = 65 /\ last.pokemon.max_hp = 80
    /\ last.pokemon.status_condition = PyStr("Poison")
    /\ Contains(last.available_items, "Full Restore")
    /\ ~last.result.value.should_use_item

\* C14: should_use_item on the creature built by the constructor from HP 15
\* (no separate max-HP argument), with 'Potion' in the inventory and item use
\* allowed, returns should_use_item = true and recommended_item = 'Potion'.
C14_InjuredGetsPotion ==
    (/\ IsReturned("should_use_item")
     /\ last.pokemon.obj = "injured_pikachu"
     /\ Contains(last.available_items, "Potion")
     /\ battle_state.can_use_items) =>
        /\ Returns(last.result)
        /\ last.result.value.should_use_item
        /\ last.result.value.recommended_item = PyStr("Potion")

\* The keyword fields of BattleState that update_battle_state is called with
KeywordFields == {"player_items", "party_pokemon", "can_switch", "can_use_items"}

\* C15: update_battle_state is a selective merge: every field the caller
\* supplies (player_pokemon, opponent_pokemon, battle_phase or a keyword
\* field) is overwritten with the supplied value, whatever that value is, and
\* every omitted field keeps its previous value.
C15_SelectiveMerge ==
    [][ last'.op = "update_battle_state" =>
          LET a == last'.args
          IN /\ battle_state'.player_pokemon =
                   IF IsNone(a.player_pokemon) THEN battle_state.player_pokemon
                   ELSE a.player_pokemon
             /\ battle_state'.opponent_pokemon =
                   IF IsNone(a.opponent_pokemon) THEN battle_state.opponent_pokemon
                   ELSE a.opponent_pokemon
             /\ battle_state'.battle_phase =
                   IF IsNone(a.battle_phase) THEN battle_state.battle_phase
                   ELSE a.battle_phase.s
             /\ \A f \in KeywordFields :
                   battle_state'[f] =
                       IF f \in DOMAIN a.kwargs THEN a.kwargs[f] ELSE battle_state[f] ]_vars

\* The operations that advise: everything but update_battle_state
AdvisoryOps ==
    {"calculate_damage", "suggest_move", "should_switch_pokemon", "should_use_item",
     "get_battle_decision"}

\* C16: the advisory operations are read-only: calculate_damage, suggest_move,
\* should_switch_pokemon, should_use_item and get_battle_decision leave every
\* field of the creatures, of their moves and of the BattleState unchanged;
\* update_battle_state is the only operation that changes BattleState.
C16_AdvisorsReadOnly ==
    [][ /\ last'.op \in AdvisoryOps => battle_state' = battle_state
        /\ battle_state' # battle_state => last'.op = "update_battle_state" ]_vars

\* C16 witness: damage computed for the active creature's first move, which
\* still has the PP it was built with
C16_Witness ==
    /\ IsReturned("calculate_damage")
    /\ ~NotInitialized(battle_state)
    /\ last.result["caller"] # Return(0)
    /\ battle_state.player_pokemon.moves[1].pp = battle_state.player_pokemon.moves[1].max_pp
    /\ battle_state.player_pokemon.hp = battle_state.player_pokemon.max_hp

\* A creature argument of a wrapper is malformed: not a dictionary, a
\* required field missing, or a type string that does not parse
MalformedCreature(v) ==
    \/ ~IsDict(v)
    \/ ~(RequiredFields \subseteq DOMAIN v.d)
    \/ \E i \in DOMAIN v.d.types : ~ParsesAsType(v.d.types[i])
\* The move argument of the calculate_damage wrapper is malformed
MalformedMove(v) ==
    \/ ~IsDict(v)
    \/ ~(MoveArgumentKeys \subseteq DOMAIN v.d)
    \/ ~ParsesAsType(v.d.type)

\* C17: the wrappers get_type_effectiveness, calculate_damage and suggest_move
\* never raise, and on malformed input (a missing required field, a
\* non-dictionary argument, an unparseable type string in a creature's type
\* list or in the move record) return the neutral result: effectiveness 1.0,
\* damage 0, move None respectively.
C17_WrappersFailSoft ==
    /\ IsReturned("get_type_effectiveness") =>
          /\ Returns(last.result)
          /\ (~ParsesAsType(last.attack_type) \/ ~ParsesAsType(last.defense_type))
                => last.result.value = 4
    /\ IsReturned("calculate_damage_flat") =>
          /\ Returns(last.result)
          /\ (\/ MalformedCreature(last.attacker) \/ MalformedCreature(last.defender)
              \/ MalformedMove(last.move))
                => last.result.value = 0
    /\ IsReturned("suggest_move_flat") =>
          /\ Returns(last.result)
          /\ (MalformedCreature(last.attacker) \/ MalformedCreature(last.defender))
                => IsNone(last.result.value.move)

\* The usable moves the attacker dictionary lists
ListedUsableMoves(v) == SelectSeq(convert_moves(DictGet(v, "moves", <<>>)), has_pp)

\* C18: for well-formed dictionaries in which the attacker lists at least one
\* move with PP > 0, the wrapper suggest_move returns a record with a non-null
\* move that is one of the attacker's listed moves, together with a reason.
C18_WrapperChoosesListedMove ==
    (/\ IsReturned("suggest_move_flat")
     /\ ~MalformedCreature(last.attacker) /\ ~MalformedCreature(last.defender)
     /\ IsNone(last.available_moves)
     /\ Len(ListedUsableMoves(last.attacker)) > 0) =>
        /\ Returns(last.result)
        /\ ~IsNone(last.result.value.move)
        /\ \E i \in DOMAIN ListedUsableMoves(last.attacker) :
              last.result.value.move = ListedUsableMoves(last.attacker)[i]
        /\ Len(last.result.value.reason) > 0

\* The scenario of test_water_damage_against_fire: Squirtle (Water, level 10,
\* special 50) uses Water Gun (Water, Special, power 40, PP left) against
\* Charmander (Fire, special 50).
WaterGunAgainstFire ==
    /\ last.attacker.species = "Squirtle" /\ last.attacker.level = 10
    /\ last.attacker.types = <<"Water">> /\ last.attacker.special = 50
    /\ last.defender.species = "Charmander" /\ last.defender.types = <<"Fire">>
    /\ last.defender.special = 50
    /\ last.move.name = "Water Gun" /\ last.move.type = "Water"
    /\ is_special(last.move) /\ last.move.power = 40 /\ has_pp(last.move)

\* C19: in the Squirtle / Water Gun / Charmander scenario calculate_damage
\* returns more than 30, for every damage roll and every critical-hit outcome.
C19_WaterGunOver30 ==
    (IsReturned("calculate_damage") /\ WaterGunAgainstFire) =>
        \A h \in Helpers : Returns(last.result[h]) /\ Value(last.result[h]) > 30

\* Every attempt made so far failed with a connection or timeout exception
AllAttemptsFailed == \A i \in DOMAIN last.calls : IsRequestException(last.calls[i])

\* C20, what holds in every state of a _make_request call: at most max_retries
\* HTTP attempts are made; a valid 2xx response is the last attempt, ends the
\* call and is returned validated, so that two failures followed by a success
\* are exactly 3 attempts; and when all max_retries attempts have failed with a
\* request exception the call has raised MistralAPIError.
C20_RetryState ==
    /\ Len(last.calls) <= last.max_retries
    /\ \A i \in DOMAIN last.calls :
          last.calls[i] = "Valid2xx" =>
              /\ i = Len(last.calls)
              /\ \A j \in 1 .. i - 1 : last.calls[j] # "Valid2xx"
              /\ last.done /\ last.result = Return(APIResponseModel)
    /\ (Len(last.calls) >= 1 /\ Len(last.calls) = last.max_retries /\ AllAttemptsFailed)
          => last.done /\ last.result = Raise("MistralAPIError")

\* C20, what holds of every step: an attempt that fails with a connection or
\* timeout exception while attempts remain does not end the call but goes to
\* the backoff, and the backoff of 2 ** attempt seconds is followed by the
\* next attempt of the loop.
C20_RetryStep ==
    /\ (Len(last'.calls) = Len(last.calls) + 1
          /\ IsRequestException(last'.calls[Len(last'.calls)])
          /\ Len(last'.calls) < last.max_retries)
        => ~last'.done /\ last'.pc = "sleep"
    /\ last.pc = "sleep"
        => /\ ~last'.done /\ last'.pc = "request"
           /\ last'.attempt = last.attempt + 1
           /\ last'.sleeps = Append(last.sleeps, 2 ^ last.attempt)
           /\ last'.calls = last.calls

\* C20: MistralAPI._make_request retries transient failures. It makes at most
\* max_retries HTTP attempts; an attempt that fails with a connection or
\* timeout exception is followed, after a backoff, by another attempt while
\* attempts remain; the first valid 2xx response ends the loop and is returned
\* validated (two failures then a success: exactly 3 attempts); and when all
\* max_retries attempts fail with a request exception MistralAPIError is raised.
C20_RetriesTransientFailures ==
    /\ []C20_RetryState
    /\ [][C20_RetryStep]_vars
    /\ \A k \in 1 .. MaxRetries :
          (Len(last.calls) = k /\ ~last.done /\ IsRequestException(last.calls[k]))
              ~> (last.pc = "request" /\ last.attempt = k)

\* C20 witnesses: the run of test_retry_mechanism (a connection error, a
\* timeout, then a valid response, returned after backoffs of 1 and 2
\* seconds), reached with max_retries 3.
C20_Witness ==
    /\ IsReturned("_make_request")
    /\ last.max_retries = 3
    /\ last.calls = <<"ConnectionError", "Timeout", "Valid2xx">>
    /\ last.sleeps = <<1, 2>>
    /\ last.result = Return(APIResponseModel)

\* C21: constructing MistralAPI with no api_key argument and no
\* MISTRAL_API_KEY in the environment raises ValueError, so that no client
\* object without a key exists and no request is ever made on one.
C21_NoKeyRaisesValueError ==
    /\ (IsReturned("MistralAPI") /\ IsNone(last.api_key) /\ IsNone(last.env_key))
          => last.result = Raise("ValueError")
    /\ IsReturned("MistralAPI")
          => (last.result.raised = "none" => ~IsNone(last.result.value.api_key))
    /\ last.op = "_make_request" => last.has_key

\* C22: detect_state, called without a memory argument or with a memory
\* object, classifies from the memory map's reads with the precedence
\* BATTLE > DIALOG > MENU > OVERWORLD: BATTLE when the in-battle flag reads 1
\* or the battle type is 1, 2 or 3, otherwise DIALOG when a text-box flag is
\* set, otherwise MENU when a menu flag is set, otherwise OVERWORLD.
C22_StatePrecedence ==
    IsReturned("detect_state") =>
        LET r == last.reads
            battle == r.in_battle_flag = 1 \/ r.battle_type \in {1, 2, 3}
            dialog == r.text_box_state # 0 \/ r.text_box_active # 0
            menu == r.menu_open # 0 \/ r.inventory_menu # 0
        IN last.result =
              Return(CASE battle -> "BATTLE"
                       [] ~battle /\ dialog -> "DIALOG"
                       [] ~battle /\ ~dialog /\ menu -> "MENU"
                       [] OTHER -> "OVERWORLD")

\* Cells one step away from p
StepsFrom(p) ==
    {q \in Positions : (q[1] - p[1]) * (q[1] - p[1]) + (q[2] - p[2]) * (q[2] - p[2]) = 1}

\* The passable cells reached from start in at most k steps through passable
\* cells (none when start itself is an obstacle)
RECURSIVE WithinSteps(_, _, _)
WithinSteps(grid, start, k) ==
    IF grid[start] # 0 THEN {}
    ELSE IF k = 0 THEN {start}
    ELSE LET near == WithinSteps(grid, start, k - 1)
         IN near \cup {q \in Positions : grid[q] = 0 /\ \E p \in near : q \in StepsFrom(p)}

\* The cell a list of directions leads to from p, or <<-1, -1>> once a step
\* leaves the grid or enters an obstacle
RECURSIVE Follow(_, _, _)
Follow(grid, p, path) ==
    IF path = <<>> THEN p
    ELSE LET q == CASE path[1] = "UP" -> <<p[1] - 1, p[2]>>
                    [] path[1] = "DOWN" -> <<p[1] + 1, p[2]>>
                    [] path[1] = "LEFT" -> <<p[1], p[2] - 1>>
                    [] path[1] = "RIGHT" -> <<p[1], p[2] + 1>>
         IN IF q \in Positions /\ grid[q] = 0 THEN Follow(grid, q, Tail(path))
            ELSE <<-1, -1>>

\* C23: for every grid of passable and obstacle cells and every in-bounds
\* start and goal, astar returns [] when start equals goal; otherwise, when the
\* goal can be reached, a list of directions that leads from start through
\* passable cells to the goal in the least possible number of steps; and None
\* exactly when the goal cannot be reached.
C23_AstarOptimal ==
    IsReturned("astar") =>
        LET all == Cardinality(Positions)
            reachable == last.goal \in WithinSteps(last.grid, last.start, all)
            least == CHOOSE k \in 0 .. all :
                        /\ last.goal \in WithinSteps(last.grid, last.start, k)
                        /\ \A j \in 0 .. k - 1 :
                              last.goal \notin WithinSteps(last.grid, last.start, j)
        IN IF last.start = last.goal THEN last.result = Return(<<>>)
           ELSE IF reachable
               THEN /\ Returns(last.result)
                    /\ Value(last.result) # None
                    /\ Follow(last.grid, last.start, Value(last.result)) = last.goal
                    /\ Len(Value(last.result)) = least
           ELSE last.result = Return(None)

\* C24: for a Physical or Special move with remaining uses (and a defending
\* stat other than 0, by which the formula divides), calculate_damage is
\* floor(base * stab * effectiveness * critical * randomFactor), raised to 1
\* when it is below 1 and the effectiveness is greater than 0, with
\* base = ((2 * level / 5 + 2) * power * attackStat / defenseStat) / 50 + 2,
\* the stats being (attack, defense) for Physical and (special, special) for
\* Special, stab 1.5 when the move's type is one of the attacker's types and
\* 1.0 otherwise, critical 1 or 2 and randomFactor the call's roll in
\* [0.85, 1.0]. The product is formed exactly: base is
\* ((2 * level + 10) * power * attackStat + 500 * defenseStat) / (250 * defenseStat),
\* stab is counted in halves and effectiveness in quarters.
C24_DamageFormula ==
    (/\ IsReturned("calculate_damage")
     /\ last.move.category \in {"Physical", "Special"}
     /\ last.move.pp > 0
     /\ DmgDefenseStat # 0) =>
        LET physical == last.move.category = "Physical"
            attackStat == IF physical THEN last.attacker.attack ELSE last.attacker.special
            defenseStat == IF physical THEN last.defender.defense ELSE last.defender.special
            stabHalves == IF \E i \in DOMAIN last.attacker.types :
                                 last.attacker.types[i] = last.move.type
                             THEN 3 ELSE 2
            roll == 17000 + 3 * last.str_hash
            product(critical) ==
                ((2 * last.attacker.level + 10) * last.move.power * attackStat
                    + 500 * defenseStat) * stabHalves * DmgEffQ * critical
            floored(critical) ==
                MulDivFloor(product(critical), roll, 20000) \div (250 * defenseStat * 2 * 4)
        IN /\ 17000 <= roll /\ roll <= 20000
           /\ \A h \in Helpers : \E critical \in {1, 2} :
                last.result[h] =
                    Return(IF floored(critical) < 1 /\ DmgEffQ > 0
                              THEN 1 ELSE floored(critical))

\* C24 witness: a Physical move of the attacker's own type, with remaining
\* uses, against a defending stat other than 0, doing more than the minimum
\* damage, critical on one helper and not on the other.
C24_Witness ==
    /\ IsReturned("calculate_damage")
    /\ last.move.category = "Physical" /\ last.move.pp > 0 /\ last.move.power > 0
    /\ last.defender.defense # 0
    /\ last.move.type = last.attacker.types[1]
    /\ last.str_hash = 500
    /\ Returns(last.result["module"]) /\ Returns(last.result["caller"])
    /\ Value(last.result["module"]) > 1
    /\ Value(last.result["caller"]) > Value(last.result["module"])

\* C25: the score _evaluate_move gives a candidate (with maximum uses above 0)
\* is power/100 (0 for a Status move) + the dual-type effectiveness multiplier
\* + 0.5 when the move's type is one of the attacker's types
\* + 0.3 * uses / maximum uses - 0.2 * (100 - accuracy)/100 when accuracy is
\* below 100 + 0.3 for a Status move - 10 when the effectiveness is 0; the
\* evaluation yields this number for every candidate and defender. Scores are
\* compared as fractions, the expected one over 1000 * maximum uses.
C25_ScoreIsSum ==
    (IsReturned("_evaluate_move") /\ last.move.max_pp > 0) =>
        LET m == last.move
            effQ == get_effectiveness_dual_type(m.type, last.defender.types)
            expected ==
                m.max_pp * ( (IF m.category = "Status" THEN 0 ELSE 10 * m.power)
                             + 250 * effQ
                             + (IF \E i \in DOMAIN last.attacker.types :
                                      last.attacker.types[i] = m.type THEN 500 ELSE 0)
                             - (IF m.accuracy < 100 THEN 2 * (100 - m.accuracy) ELSE 0)
                             + (IF m.category = "Status" THEN 300 ELSE 0)
                             - (IF effQ = 0 THEN 10000 ELSE 0) )
                + 300 * m.pp
        IN /\ Returns(last.result)
           /\ Value(last.result).num * (1000 * m.max_pp) = expected * Value(last.result).den

RECURSIVE SumSeq(_)
SumSeq(s) == IF s = <<>> THEN 0 ELSE s[1] + SumSeq(Tail(s))

\* totalScore of a bench member against the opponent, in 1/400: the sum over
\* its usable moves of effectiveness (quarters) * power (hundredths), less the
\* sum over the opponent's damaging moves of their effectiveness against it
TotalScore(member, opponent) ==
    LET usable == SelectSeq(member.moves, LAMBDA m : m.pp > 0)
        damaging == SelectSeq(opponent.moves, LAMBDA m : m.power > 0)
    IN SumSeq([i \in DOMAIN usable |->
                  get_effectiveness_dual_type(usable[i].type, opponent.types)
                      * usable[i].power])
       - SumSeq([i \in DOMAIN damaging |->
                  100 * get_effectiveness_dual_type(damaging[i].type, member.types)])

\* The live bench members other than the active creature, by index
LiveBench ==
    {i \in DOMAIN last.available_party :
        /\ last.available_party[i].hp > 0
        /\ last.available_party[i].obj # last.current_pokemon.obj}

\* C26: whenever switching is allowed and the bench holds a live member other
\* than the active creature, should_switch_pokemon returns as
\* recommended_pokemon a member of highest totalScore among them, however low
\* that totalScore is.
C26_RecommendsHighestTotal ==
    (IsReturned("should_switch_pokemon") /\ battle_state.can_switch /\ LiveBench # {}) =>
        /\ Returns(last.result)
        /\ \E i \in LiveBench :
              /\ Value(last.result).recommended_pokemon = last.available_party[i]
              /\ \A j \in LiveBench :
                    TotalScore(last.available_party[j], last.opponent_pokemon)
                        <= TotalScore(last.available_party[i], last.opponent_pokemon)

\* The baseline of C27 in quarters: the opponent's first move's type (Normal
\* when it has no moves) against the active creature's types
Baseline ==
    get_effectiveness_dual_type(
        IF last.opponent_pokemon.moves = <<>> THEN "Normal"
        ELSE last.opponent_pokemon.moves[1].type,
        last.current_pokemon.types)

\* C27: should_switch_pokemon answers should_switch = true exactly when
\* switching is allowed, the bench is not empty and the best bench totalScore
\* is strictly greater than 1.5 times the baseline; when switching is
\* disallowed or the bench is empty it answers false with no recommended
\* creature and a reason; otherwise, when it does not switch, it reports that
\* the current matchup is adequate.
C27_SwitchExactlyAboveBaseline ==
    IsReturned("should_switch_pokemon") =>
        LET allowed == battle_state.can_switch /\ last.available_party # <<>>
            better == \E i \in LiveBench :
                         TotalScore(last.available_party[i], last.opponent_pokemon)
                             > 150 * Baseline
        IN /\ Returns(last.result)
           /\ Value(last.result).should_switch <=> (allowed /\ better)
           /\ ~allowed =>
                 /\ Value(last.result).recommended_pokemon = None
                 /\ Value(last.result).reason = "Cannot switch or no alternatives available"
           /\ (allowed /\ ~better) =>
                 Value(last.result).reason = "Current Pokemon has adequate type matchup"

\* C28: for a creature with max HP above 0, should_use_item follows this table
\* in order: empty inventory or item use disallowed -> no item; health ratio
\* above 0.8 -> no item; health ratio below 0.3 and 'Potion' present ->
\* 'Potion', also when the creature has a status condition and the cure is
\* present; otherwise a status condition and 'Full Restore' present ->
\* 'Full Restore'; otherwise no item, for no critical need.
C28_ItemDecisionTable ==
    (IsReturned("should_use_item") /\ last.pokemon.max_hp > 0) =>
        LET has(item) == \E i \in DOMAIN last.available_items : last.available_items[i] = item
            hp == last.pokemon.hp
            max == last.pokemon.max_hp
            status == last.pokemon.status_condition \notin {None, PyStr("")}
            row == CASE last.available_items = <<>> \/ ~battle_state.can_use_items -> 1
                     [] OTHER ->
                        IF 5 * hp > 4 * max THEN 2
                        ELSE IF 10 * hp < 3 * max /\ has("Potion") THEN 3
                        ELSE IF status /\ has("Full Restore") THEN 4
                        ELSE 5
            v == Value(last.result)
        IN /\ Returns(last.result)
           /\ row \in {1, 2, 5} => ~v.should_use_item /\ v.recommended_item = None
           /\ row = 3 => v.should_use_item /\ v.recommended_item = PyStr("Potion")
           /\ row = 4 => v.should_use_item /\ v.recommended_item = PyStr("Full Restore")
           /\ row = 5 => v.reason = "No critical need for items"

\* C28 witness: a creature at 23 of 80 HP with a status condition, holding
\* both items, is advised the Potion.
C28_Witness ==
    /\ IsReturned("should_use_item")
    /\ last.pokemon.hp = 23 /\ last.pokemon.max_hp = 80
    /\ last.pokemon.status_condition = PyStr("Poison")
    /\ last.available_items = <<"Potion", "Full Restore">>
    /\ battle_state.can_use_items
    /\ last.result.value.recommended_item = PyStr("Potion")

\* C29: each adjust_frame_skip call made while the detected game state is
\* BATTLE, MENU or DIALOG raises frame_skip by 1, up to max_frames_to_skip;
\* each call in any other state lowers it by 1, down to 1; and after every
\* call, also one where state detection fails, 1 <= frame_skip <= 60.
C29_FrameSkipFollowsState ==
    [][(last.op = "adjust_frame_skip" /\ last'.op = "adjust_frame_skip") =>
          /\ 1 <= last'.frame_skip /\ last'.frame_skip <= 60
          /\ last'.game_state \in {Return("BATTLE"), Return("MENU"), Return("DIALOG")}
                => last'.frame_skip = (IF last.frame_skip + 1 < 60
                                          THEN last.frame_skip + 1 ELSE 60)
          /\ last'.game_state = Return("OVERWORLD")
                => last'.frame_skip = (IF last.frame_skip - 1 > 1
                                          THEN last.frame_skip - 1 ELSE 1)]_vars

\* The threads that are inside the queue-draining section of
\* _process_input_queue (from setting the guard flag to resetting it)
Draining == {t \in Threads : last.pc[t] \in {"while", "press", "sleep", "release",
                                             "finally", "reset"}}

\* The presses and releases made so far are those of inputs 1, 2, ... in the
\* order they were queued, each pressed once and released before the next
\* input is pressed
PairsInFifoOrder ==
    \A i \in 1..Len(last.presses) :
        last.presses[i] = <<(IF i % 2 = 1 THEN "press" ELSE "release"), (i + 1) \div 2>>

\* C30: at most one thread is inside the queue-draining section; every
\* queued input is pressed and then released exactly once, in FIFO order,
\* with no press/release pair interleaving with another; and the guard flag
\* is set only while a thread is draining, being reset when draining ends,
\* also after an exception.
C30_ExclusiveDrain ==
    last.op = "input_queue" =>
        /\ Cardinality(Draining) <= 1
        /\ PairsInFifoOrder
        /\ last.processing_inputs => Draining # {}

====
